---------------------------- MODULE Spec2Model ----------------------------
(***************************************************************************)
(* The authenticated request pipeline of skygear-core's BaseAPIClient      *)
(* (packages/skygear-core/src/client.ts): header preparation, the          *)
(* stale-token refresh-and-retry of fetch(), the envelope decoding of       *)
(* request(), and the auth-flow operations that thread the                  *)
(* authentication-session token into their payloads.                        *)
(*                                                                          *)
(* Every logical call is a process c whose position pc[c] follows the       *)
(* awaits of fetch(): the code between two awaits is one atomic action.     *)
(* The transport, the refresh callback and the extra-session-info supplier  *)
(* are collaborators: their answers are chosen from small sets.             *)
(***************************************************************************)
EXTENDS Naturals, Sequences, FiniteSets, TLC

(***************************************************************************)
(* Values.  JavaScript strings are TLA+ strings; null and undefined are     *)
(* two reserved strings no token, key or argument is equal to.  JSON        *)
(* values of a response envelope are tagged records (see JNull .. JObj).    *)
(***************************************************************************)
Null == "<null>"
Undefined == "<undefined>"
EmptyString == ""

\* Bounds of the model.
NumTokens == 2
NumSessionTokens == 1

TokenNames == <<"tok1", "tok2", "tok3", "tok4">>
SessionTokenNames == <<"sess1", "sess2", "sess3">>

\* Access-token values a refresh callback or the host may store.
Tokens == {TokenNames[i] : i \in 1..NumTokens}
\* Authentication-session tokens the host may hold.
SessionTokens == {SessionTokenNames[i] : i \in 1..NumSessionTokens}
\* _accessToken: string | null.  The empty string is a string too.
AccessTokenValues == {Null, EmptyString} \cup Tokens
\* _authenticationSession: AuthenticationSession | null.
AuthenticationSessionValues == {Null} \cup SessionTokens

\* The logical calls a behaviour may have in flight at the same time.
Calls == {"call1"}

\* JavaScript truthiness of a string | null | undefined value.
TruthyString(s) == s # Null /\ s # Undefined /\ s # EmptyString

VARIABLES
    apiKey,                 \* this.apiKey
    endpoint,               \* this.endpoint
    authEndpoint,           \* this.authEndpoint
    assetEndpoint,          \* this.assetEndpoint
    accessToken,            \* this._accessToken
    authenticationSession,  \* this._authenticationSession (its token, or Null)
    fetchFunction,          \* this.fetchFunction is set
    requestClass,           \* this.requestClass is set
    refreshTokenFunction,   \* this.refreshTokenFunction is set
    userAgent,              \* this.userAgent
    getExtraSessionInfo,    \* this.getExtraSessionInfo is set
    calls                   \* the logical calls: per call, a record of
                            \*   pc               the await the call is suspended at
                            \*                    ("json": request's await of response.json())
                            \*   op               the public operation that was invoked
                            \*   options          fetch's parameter options
                            \*   autoRefreshToken fetch's local autoRefreshToken
                            \*   request          fetch's local request
                            \*   headers          fetch's local headers (the latest)
                            \*   response         fetch's local response
                            \*   tokenRefreshed   fetch's local tokenRefreshed
                            \*   extraInfoAwaited prepareHeaders awaits getExtraSessionInfo()
                            \*   requestResponse  request's local response: what fetch returned
                            \*   outcome          what request() (a direct fetch()) settled with
                            \* and, as history,
                            \*   sent             the requests handed to fetchFunction
                            \*   refreshCalls     the invocations of refreshTokenFunction
                            \*   tokenRead        the _accessToken each prepareHeaders read
                            \*   sessionAtCall    the _authenticationSession at the invocation

clientVars == <<apiKey, endpoint, authEndpoint, assetEndpoint, accessToken, authenticationSession,
                fetchFunction, requestClass, refreshTokenFunction, userAgent,
                getExtraSessionInfo>>
vars == <<clientVars, calls>>

\* A local that holds nothing (not yet assigned), and one that was assigned
\* the boolean v.
None == [none |-> TRUE]
Assigned(v) == [value |-> v]

-----------------------------------------------------------------------------
(***************************************************************************)
(* JSON values of a response body.                                          *)
(***************************************************************************)
JUndefined == [type |-> "undefined"]
JNull == [type |-> "null"]
JString(s) == [type |-> "string", value |-> s]
JObject(o) == [type |-> "object", value |-> o]

\* JavaScript truthiness of a JSON value.
Truthy(j) ==
    CASE j.type = "undefined" -> FALSE
      [] j.type = "null" -> FALSE
      [] j.type = "string" -> j.value # EmptyString
      [] OTHER -> TRUE

\* jsonBody[key]: a property read, undefined when the key is absent.
Get(o, key) == IF key \in DOMAIN o THEN o[key] ELSE JUndefined


\* JSON.stringify of a payload object: a property whose value is undefined
\* is left out of the text.
JSONStringify(payload) ==
    [k \in {x \in DOMAIN payload : payload[x] # Undefined} |-> payload[k]]

-----------------------------------------------------------------------------
(***************************************************************************)
(* Helpers of client.ts.                                                    *)
(***************************************************************************)
\* A path is its text after an optional leading slash.
Path(rest) == [slash |-> TRUE, rest |-> rest]

\* input.replace(/^\//, ""): the path without its leading slash.
RemoveLeadingSlash(input) == [slash |-> FALSE, rest |-> input.rest]

\* `bearer ${token}`
Bearer(token) == <<"bearer ", token>>

shouldRefreshTokenOnAnyValue(r) ==
    "x-skygear-try-refresh-token" \in DOMAIN r.headers

\* shouldRefreshToken(r): the header equals the literal string "true".
\* Headers.get answers null for an absent header.
HeaderGet(hs, name) == IF name \in DOMAIN hs THEN hs[name] ELSE Null

shouldRefreshToken(r) ==
    LET h == HeaderGet(r.headers, "x-skygear-try-refresh-token")
    IN  h = "true"

\* prepareHeaders, up to its await of getExtraSessionInfo: the headers
\* built from the client's fields as they are now.
prepareHeaders ==
    LET h0 == ("x-skygear-api-key" :> apiKey)
        h1 == IF TruthyString(accessToken)
              THEN ("authorization" :> Bearer(accessToken)) @@ h0
              ELSE h0
    IN  IF userAgent # Undefined
        THEN ("user-agent" :> userAgent) @@ h1
        ELSE h1

\* prepareHeaders, after getExtraSessionInfo has answered extraSessionInfo:
\* the base64 of its JSON text is added when the answer is truthy.
withExtraSessionInfo(hs, extraSessionInfo) ==
    IF extraSessionInfo # Null
    THEN ("x-skygear-extra-info" :> <<"base64", <<"json", extraSessionInfo>>>>) @@ hs
    ELSE hs

\* for (const key of Object.keys(headers)) req.headers.set(key, headers[key]):
\* every prepared header overwrites the request's; no header is removed.
setHeaders(req, hs) == [req EXCEPT !.headers = hs @@ req.headers]


\* An object without properties: {} as a payload, no header at all.
EmptyObject == [k \in {} |-> Undefined]

-----------------------------------------------------------------------------
(***************************************************************************)
(* Outcomes of a call: the value its promise resolves with, or the error    *)
(* it rejects with.                                                         *)
(***************************************************************************)
Return(v) == [kind |-> "return", value |-> v]
Throw(e) == [kind |-> "throw", error |-> e]

\* new Error(message)
Error(message) == [class |-> "Error", message |-> message]

\* new SkygearError(message, name, reason, info), info optional.
SkygearError(message, name, reason) ==
    [class |-> "SkygearError", message |-> message, name |-> name,
     reason |-> reason]

SkygearErrorWithInfo(message, name, reason, info) ==
    [class |-> "SkygearError", message |-> message, name |-> name,
     reason |-> reason, info |-> info]

\* decodeError(err) of ./error: the structured error of an envelope's error
\* object, its name and reason those of the envelope.
decodeError(err) ==
    IF err.type = "object" /\ {"name", "reason", "message"} \subseteq DOMAIN err.value
    THEN SkygearError(err.value.message, err.value.name, err.value.reason)
    ELSE Error("an unknown error occurred")

\* decodeError() of ./error without an argument: the generic error of a
\* malformed envelope.
decodeErrorOfNothing == Error("an unknown error occurred")

jsonParseFailureOffByOne(status) ==
    IF status <= 200 \/ status > 300
    THEN Throw(SkygearErrorWithInfo("unexpected status code", "InternalError",
                                    "UnexpectedError", [status_code |-> status]))
    ELSE Throw(SkygearError("failed to decode response JSON", "InternalError",
                            "UnexpectedError"))

\* response.json() failed (lines 251-268): the status decides the error.
jsonParseFailure(status) ==
    IF status < 200 \/ status >= 300
    THEN Throw(SkygearErrorWithInfo("unexpected status code", "InternalError",
                                    "UnexpectedError", [status_code |-> status]))
    ELSE Throw(SkygearError("failed to decode response JSON", "InternalError",
                            "UnexpectedError"))

decodeEnvelopeErrorFirst(jsonBody) ==
    IF jsonBody.type \in {"null", "undefined"}
    THEN Throw([class |-> "TypeError", message |-> "cannot read property 'result'"])
    ELSE LET o == IF jsonBody.type = "object" THEN jsonBody.value ELSE EmptyObject
         IN  IF Truthy(Get(o, "error"))
             THEN Throw(decodeError(Get(o, "error")))
             ELSE IF Truthy(Get(o, "result"))
                  THEN Return(Get(o, "result"))
                  ELSE Throw(decodeErrorOfNothing)

\* The envelope decoding of request (lines 270-276) for a parsed body.
decodeEnvelope(jsonBody) ==
    IF jsonBody.type \in {"null", "undefined"}
    THEN Throw([class |-> "TypeError", message |-> "cannot read property 'result'"])
    ELSE LET o == IF jsonBody.type = "object" THEN jsonBody.value ELSE EmptyObject
         IN  IF Truthy(Get(o, "result"))
             THEN Return(Get(o, "result"))
             ELSE IF Truthy(Get(o, "error"))
                  THEN Throw(decodeError(Get(o, "error")))
                  ELSE Throw(decodeErrorOfNothing)

requestOutcomeOfTheWholeBody(r) ==
    IF r.body.parses
    THEN Return(r.body.value)
    ELSE jsonParseFailure(r.status)

\* What request() settles with once fetch() has returned r (lines 248-276).
requestOutcome(r) ==
    IF r.body.parses
    THEN decodeEnvelope(r.body.value)
    ELSE jsonParseFailure(r.status)


-----------------------------------------------------------------------------
(***************************************************************************)
(* Inputs: what the host passes and what the collaborators answer.          *)
(***************************************************************************)
ApiKeys == {"api-key-1"}
UserAgents == {"ua-1"}
OTPs == {"123456"}
Codes == {"code-1"}
AuthenticatorIDs == {Undefined, "authenticator-1"}
BearerTokens == {Undefined, "bearer-1"}
SkipMFAForCurrentDevice == {Undefined, "true"}
RefreshTokens == {"refresh-1"}
\* What getExtraSessionInfo resolves with: a JSON object, or null.
ExtraSessionInfos == {Null, "device-info-1"}

\* Response headers: the stale-token header absent, "true", or another text.
ResponseHeaders ==
    {EmptyObject,
     ("x-skygear-try-refresh-token" :> "true"),
     ("x-skygear-try-refresh-token" :> "false")}

NotJSON == [parses |-> FALSE]
Parsed(v) == [parses |-> TRUE, value |-> v]

ResultValue == JString("result-1")
ErrorValue ==
    JObject([name |-> "Unauthorized", reason |-> "NotAuthenticated",
             message |-> "authentication required"])

Envelopes ==
    {JObject(("result" :> ResultValue)),
     JObject(("error" :> ErrorValue)),
     JObject(EmptyObject),
     JObject(("result" :> JNull) @@ ("error" :> ErrorValue)),
     JObject(("result" :> ResultValue) @@ ("error" :> ErrorValue)),
     JNull}

\* The responses the transport may answer with: a body that is not JSON
\* under each status class, every envelope, and the stale-token header
\* absent, "true" or another text.
Responses ==
    {[status |-> st, headers |-> EmptyObject, body |-> NotJSON] :
        st \in {199, 200, 299, 300}}
    \cup
    {[status |-> 200, headers |-> EmptyObject, body |-> Parsed(e)] :
        e \in Envelopes}
    \cup
    {[status |-> 401, headers |-> h,
      body |-> Parsed(JObject(("error" :> ErrorValue)))] : h \in ResponseHeaders}
    \cup
    {[status |-> 401, headers |-> EmptyObject,
      body |-> Parsed(JObject(("result" :> ResultValue)))]}
    \cup
    {[status |-> 200, headers |-> ("x-skygear-try-refresh-token" :> "true"),
      body |-> Parsed(JObject(("result" :> ResultValue)))]}

-----------------------------------------------------------------------------
(***************************************************************************)
(* The operations of the auth-flow layer.  Each one answers the request     *)
(* it hands to post(): the method, the path and the options.                *)
(***************************************************************************)
post(path, options) == [method |-> "POST", path |-> path, options |-> options]

makePayloadWithoutAuthenticationSessionToken(payload) == payload

\* makePayloadWithAuthenticationSessionToken (lines 323-332).
makePayloadWithAuthenticationSessionToken(payload) ==
    IF authenticationSession # Null
    THEN [k \in DOMAIN payload \cup {"authn_session_token"} |->
            IF k = "authn_session_token" THEN authenticationSession
            ELSE payload[k]]
    ELSE payload

refreshWithDefaultAutoRefresh(refreshToken) ==
    post(Path("_auth/refresh"),
         [json |-> ("refresh_token" :> refreshToken)])

\* refresh (lines 380-389): the request it posts.
refresh(refreshToken) ==
    post(Path("_auth/refresh"),
         [json |-> ("refresh_token" :> refreshToken),
          autoRefreshToken |-> FALSE])

me == post(Path("_auth/me"), [json |-> EmptyObject])

authenticateWithRecoveryCode(code) ==
    post(Path("_auth/mfa/recovery_code/authenticate"),
         [json |-> makePayloadWithAuthenticationSessionToken(("code" :> code))])

activateTOTP(otp) ==
    post(Path("_auth/mfa/totp/activate"),
         [json |-> makePayloadWithAuthenticationSessionToken(("otp" :> otp))])

authenticateWithTOTP(options) ==
    post(Path("_auth/mfa/totp/authenticate"),
         [json |-> makePayloadWithAuthenticationSessionToken(
            ("request_bearer_token" :> options.skipMFAForCurrentDevice)
            @@ ("otp" :> options.otp))])

activateOOB(code) ==
    post(Path("_auth/mfa/oob/activate"),
         [json |-> makePayloadWithAuthenticationSessionToken(("code" :> code))])

triggerOOB(authenticatorID) ==
    post(Path("_auth/mfa/oob/trigger"),
         [json |-> makePayloadWithAuthenticationSessionToken(
            ("authenticator_id" :> authenticatorID))])

authenticateWithOOB(options) ==
    post(Path("_auth/mfa/oob/authenticate"),
         [json |-> makePayloadWithAuthenticationSessionToken(
            ("request_bearer_token" :> options.skipMFAForCurrentDevice)
            @@ ("code" :> options.code))])

authenticateWithBearerToken(bearerToken) ==
    post(Path("_auth/mfa/bearer_token/authenticate"),
         [json |-> makePayloadWithAuthenticationSessionToken(
            ("bearer_token" :> bearerToken))])

\* The operations that are MFA steps.
MFAStepOperations ==
    {"activateTOTP", "authenticateWithTOTP", "triggerOOB", "activateOOB",
     "authenticateWithOOB", "authenticateWithRecoveryCode",
     "authenticateWithBearerToken"}

Invocation(name, req) == [op |-> name, req |-> req]

\* Every invocation of an auth-flow operation the host may make now.
AuthFlowInvocations ==
    {Invocation("refresh", refresh(t)) : t \in RefreshTokens}
    \cup {Invocation("me", me)}
    \cup {Invocation("authenticateWithRecoveryCode",
                     authenticateWithRecoveryCode(x)) : x \in Codes}
    \cup {Invocation("activateTOTP", activateTOTP(x)) : x \in OTPs}
    \cup {Invocation("authenticateWithTOTP",
                     authenticateWithTOTP([otp |-> x, skipMFAForCurrentDevice |-> y])) :
            x \in OTPs, y \in SkipMFAForCurrentDevice}
    \cup {Invocation("activateOOB", activateOOB(x)) : x \in Codes}
    \cup {Invocation("triggerOOB", triggerOOB(x)) : x \in AuthenticatorIDs}
    \cup {Invocation("authenticateWithOOB",
                     authenticateWithOOB([code |-> x, skipMFAForCurrentDevice |-> y])) :
            x \in Codes, y \in SkipMFAForCurrentDevice}
    \cup {Invocation("authenticateWithBearerToken",
                     authenticateWithBearerToken(x)) : x \in BearerTokens}

\* A subclass's own request(method, path, {autoRefreshToken}) with the
\* flag given explicitly.
DirectRequests ==
    {Invocation("request",
                [method |-> "GET", path |-> Path("custom"),
                 options |-> [autoRefreshToken |-> b]]) : b \in BOOLEAN}


\* The invocations the pipeline is exercised with: its behaviour does not
\* depend on the path or the payload, only on the autoRefreshToken option
\* (absent, false, true).
PipelineInvocations ==
    {Invocation("refresh", refresh(t)) : t \in RefreshTokens}
    \cup {Invocation("me", me)}
    \cup DirectRequests

\* The responses the auth-flow operations are exercised with.
FlowResponses ==
    {[status |-> 200, headers |-> EmptyObject,
      body |-> Parsed(JObject(("result" :> ResultValue)))],
     [status |-> 401, headers |-> ("x-skygear-try-refresh-token" :> "true"),
      body |-> Parsed(JObject(("error" :> ErrorValue)))]}

\* The host's own use of the public fetch(input, init, options), which
\* answers the raw response.
\* An input that is not a string: a Request object, as the platform's own
\* fetch accepts.
RequestObject == [typeof |-> "object"]

\* typeof input
TypeOf(input) == IF "typeof" \in DOMAIN input THEN input.typeof ELSE "string"

DirectFetches ==
    {[input |-> i,
      init |-> [method |-> "GET", headers |-> EmptyObject, body |-> None],
      options |-> o] : i \in {Path("custom"), RequestObject},
                       o \in {EmptyObject, [autoRefreshToken |-> TRUE]}}

-----------------------------------------------------------------------------
(***************************************************************************)
(* The state after construction (lines 98-105): no capability is set and    *)
(* no call has been made.                                                   *)
(***************************************************************************)
IdleCall ==
    [pc |-> "idle", op |-> "none", options |-> EmptyObject,
     autoRefreshToken |-> FALSE, request |-> None, headers |-> None,
     response |-> None, tokenRefreshed |-> None, requestResponse |-> None,
     outcome |-> None, sent |-> <<>>, refreshCalls |-> 0, tokenRead |-> <<>>,
     sessionAtCall |-> Null, extraInfoAwaited |-> FALSE]

InitClient ==
    /\ apiKey = EmptyString
    /\ endpoint = EmptyString
    /\ authEndpoint = EmptyString
    /\ assetEndpoint = EmptyString
    /\ accessToken = Null
    /\ authenticationSession = Null
    /\ fetchFunction = FALSE
    /\ requestClass = FALSE
    /\ refreshTokenFunction = FALSE
    /\ userAgent = Undefined
    /\ getExtraSessionInfo = FALSE

Init == InitClient /\ calls = [c \in Calls |-> IdleCall]

\* The calls of this behaviour.
Running == DOMAIN calls

AllIdle == \A c \in Running : calls[c].pc = "idle"

-----------------------------------------------------------------------------
(***************************************************************************)
(* The host.                                                                *)
(***************************************************************************)
\* The host assigns the capabilities, the API key and the user agent: the
\* fields are public and are assigned at any time, also while a call waits.
Configure ==
    /\ apiKey' \in ApiKeys
    /\ fetchFunction' \in BOOLEAN
    /\ requestClass' \in BOOLEAN
    /\ refreshTokenFunction' \in BOOLEAN
    /\ userAgent' \in UserAgents
    /\ getExtraSessionInfo' \in BOOLEAN
    /\ UNCHANGED <<endpoint, authEndpoint, assetEndpoint, accessToken, authenticationSession, calls>>

\* The host installs the transport, the request class and the refresh
\* capability, and sets the API key.
InstallCapabilities ==
    /\ apiKey' \in ApiKeys
    /\ fetchFunction' = TRUE
    /\ requestClass' = TRUE
    /\ refreshTokenFunction' = TRUE
    /\ UNCHANGED <<endpoint, authEndpoint, assetEndpoint, accessToken, authenticationSession, userAgent,
                   getExtraSessionInfo, calls>>

\* The host stores an access token, or clears it.
SetAccessToken ==
    /\ accessToken' \in AccessTokenValues \ {accessToken}
    /\ UNCHANGED <<apiKey, endpoint, authEndpoint, assetEndpoint, authenticationSession, fetchFunction,
                   requestClass, refreshTokenFunction, userAgent,
                   getExtraSessionInfo, calls>>

\* The host stores the authentication session of a pending login, or
\* clears it.
SetAuthenticationSession ==
    /\ authenticationSession' \in AuthenticationSessionValues \ {authenticationSession}
    /\ UNCHANGED <<apiKey, endpoint, authEndpoint, assetEndpoint, accessToken, fetchFunction,
                   requestClass, refreshTokenFunction, userAgent,
                   getExtraSessionInfo, calls>>

-----------------------------------------------------------------------------
(***************************************************************************)
(* fetch (lines 167-214), one action per stretch of code between awaits.    *)
(***************************************************************************)
\* Call c becomes the record r.
Becomes(c, r) == calls' = [calls EXCEPT ![c] = r]

\* fetch throws e: the call's promise rejects with it.
Throws(call, e) == [call EXCEPT !.pc = "done", !.outcome = Throw(e)]

\* fetch returns r.  A direct fetch() hands it to the caller as it is;
\* request() has it as its response and awaits response.json() (line 250).
Returns(call, r) ==
    IF call.op = "fetch"
    THEN [call EXCEPT !.pc = "done", !.response = r, !.outcome = Return(r)]
    ELSE [call EXCEPT !.pc = "json", !.response = r, !.requestResponse = r]

DefaultAutoRefreshTokenAlwaysOn(options) ==
    IF "autoRefreshToken" \in DOMAIN options
    THEN options.autoRefreshToken
    ELSE TRUE

\* const { autoRefreshToken = !!this.refreshTokenFunction } = options
DefaultAutoRefreshToken(options) ==
    IF "autoRefreshToken" \in DOMAIN options
    THEN options.autoRefreshToken
    ELSE refreshTokenFunction

\* What the host's requestClass throws when its constructor, its
\* headers.set or its clone() rejects what it is given: an error of its own.
RequestClassError == [class |-> "TypeError", message |-> "requestClass"]

\* new this.requestClass(url, init), url = endpoint + "/" + input without
\* its leading slash.
NewRequest(input, init) ==
    [url |-> <<endpoint, "/", RemoveLeadingSlash(input).rest>>,
     method |-> init.method,
     headers |-> init.headers,
     body |-> init.body]

\* fetch, from its entry to the await of prepareHeaders (lines 172-189),
\* invoked by operation name.  The constructor of requestClass is the
\* host's: it may throw.
fetch(c, name, input, init, options) ==
    LET call == [calls[c] EXCEPT !.op = name, !.options = options,
                                 !.sessionAtCall = authenticationSession]
        checked == [call EXCEPT
                       !.autoRefreshToken = DefaultAutoRefreshToken(options)]
    IN  /\ calls[c].pc = "idle"
        /\ IF ~fetchFunction
           THEN Becomes(c, Throws(call, Error("missing fetchFunction in api client")))
           ELSE IF ~requestClass
           THEN Becomes(c, Throws(call, Error("missing requestClass in api client")))
           ELSE IF TypeOf(input) # "string"
           THEN Becomes(c, Throws(checked,
                    Error("only string path is allowed for fetch input")))
           ELSE \/ Becomes(c, [checked EXCEPT
                       !.request = NewRequest(input, init),
                       !.headers = prepareHeaders,
                       !.tokenRead = Append(@, accessToken),
                       !.extraInfoAwaited = getExtraSessionInfo,
                       !.pc = "prepare1"])
                \/ Becomes(c, Throws(checked, RequestClassError))
        /\ UNCHANGED clientVars

\* request (lines 216-246): the init and the options it hands to fetch.
RequestInit(method, options) ==
    [method |-> method,
     headers |-> IF "json" \in DOMAIN options
                 THEN ("content-type" :> "application/json")
                 ELSE EmptyObject,
     body |-> IF "json" \in DOMAIN options
              THEN JSONStringify(options.json)
              ELSE None]

FetchOptions(options) ==
    IF "autoRefreshToken" \in DOMAIN options
    THEN [autoRefreshToken |-> options.autoRefreshToken]
    ELSE EmptyObject

\* The host invokes operation i.op, which calls request() with i.req.
Request(c, i) ==
    fetch(c, i.op, i.req.path, RequestInit(i.req.method, i.req.options),
          FetchOptions(i.req.options))

\* What the getExtraSessionInfo that call c awaits may resolve with;
\* prepareHeaders did not call it when it was not set (line 133).
ExtraSessionInfoAnswers(c) ==
    IF calls[c].extraInfoAwaited THEN ExtraSessionInfos ELSE {Null}

\* this.fetchFunction(...) when the host has unset fetchFunction since fetch
\* checked it (line 172): the call expression throws.
NotAFunction == [class |-> "TypeError",
                 message |-> "this.fetchFunction is not a function"]

\* prepareHeaders returns; the headers are set on the request and a clone
\* of it is handed to fetchFunction (lines 189-194).  headers.set and
\* clone() are the host's: they may throw, headers.set at any header, the
\* headers before it being set already (in the order prepareHeaders adds
\* them, lines 124-139), and clone() once all are set.
SendRequest(c) ==
    /\ calls[c].pc = "prepare1"
    /\ \E info \in ExtraSessionInfoAnswers(c) :
         LET hs == withExtraSessionInfo(calls[c].headers, info)
             req == setHeaders(calls[c].request, hs)
             keys == SelectSeq(<<"x-skygear-api-key", "authorization",
                                 "user-agent", "x-skygear-extra-info">>,
                               LAMBDA k : k \in DOMAIN hs)
             first(n) == [k \in {keys[i] : i \in 1..n} |-> hs[k]]
         IN  \/ IF ~fetchFunction
                THEN Becomes(c, Throws([calls[c] EXCEPT !.headers = hs,
                                                        !.request = req],
                                       NotAFunction))
                ELSE Becomes(c, [calls[c] EXCEPT !.headers = hs, !.request = req,
                                                 !.sent = Append(@, req),
                                                 !.pc = "fetch1"])
             \/ \E n \in 0..Len(keys) :
                  Becomes(c, Throws([calls[c] EXCEPT
                                        !.headers = hs,
                                        !.request = setHeaders(@, first(n))],
                                    RequestClassError))
    /\ UNCHANGED clientVars

SendRetryRequestWithCurrentSession(c) ==
    /\ calls[c].pc = "prepare2"
    /\ \E info \in ExtraSessionInfoAnswers(c) :
         LET hs == withExtraSessionInfo(calls[c].headers, info)
             body == calls[c].request.body
             rebuilt == IF "authn_session_token" \notin DOMAIN body
                        THEN body
                        ELSE IF authenticationSession # Null
                        THEN [body EXCEPT !["authn_session_token"] =
                                              authenticationSession]
                        ELSE [k \in DOMAIN body \ {"authn_session_token"} |->
                                 body[k]]
             retryRequest == [setHeaders(calls[c].request, hs)
                                 EXCEPT !.body = rebuilt]
         IN  \/ IF ~fetchFunction
                THEN Becomes(c, Throws([calls[c] EXCEPT !.headers = hs],
                                       NotAFunction))
                ELSE Becomes(c, [calls[c] EXCEPT !.headers = hs,
                                                 !.sent = Append(@, retryRequest),
                                                 !.pc = "fetch2"])
             \/ Becomes(c, Throws([calls[c] EXCEPT !.headers = hs],
                                   RequestClassError))
    /\ UNCHANGED clientVars

\* The retry: the headers prepared after the refresh are set on a clone of
\* the request, which is handed to fetchFunction (lines 202-209);
\* headers.set may throw.
SendRetryRequest(c) ==
    /\ calls[c].pc = "prepare2"
    /\ \E info \in ExtraSessionInfoAnswers(c) :
         LET hs == withExtraSessionInfo(calls[c].headers, info)
             retryRequest == setHeaders(calls[c].request, hs)
         IN  \/ IF ~fetchFunction
                THEN Becomes(c, Throws([calls[c] EXCEPT !.headers = hs],
                                       NotAFunction))
                ELSE Becomes(c, [calls[c] EXCEPT !.headers = hs,
                                                 !.sent = Append(@, retryRequest),
                                                 !.pc = "fetch2"])
             \/ Becomes(c, Throws([calls[c] EXCEPT !.headers = hs],
                                   RequestClassError))
    /\ UNCHANGED clientVars

\* getExtraSessionInfo rejects: prepareHeaders, fetch and the call do.
ExtraSessionInfoFails(c) ==
    /\ calls[c].pc \in {"prepare1", "prepare2"}
    /\ calls[c].extraInfoAwaited
    /\ Becomes(c, Throws(calls[c], Error("getExtraSessionInfo failed")))
    /\ UNCHANGED clientVars

firstResponseStepFailFast(r, auto, hasRefresh) ==
    IF auto /\ ~hasRefresh THEN "throw"
    ELSE IF shouldRefreshToken(r) /\ auto THEN "refresh" ELSE "return"

firstResponseStepSilent(r, auto, hasRefresh) ==
    IF shouldRefreshToken(r) /\ auto /\ hasRefresh THEN "refresh" ELSE "return"

\* What fetch does with the first response r (lines 195-200): refresh the
\* token, throw for want of a refresh capability, or return r.
firstResponseStep(r, auto, hasRefresh) ==
    IF shouldRefreshToken(r) /\ auto
    THEN IF ~hasRefresh THEN "throw" ELSE "refresh"
    ELSE "return"

ReceiveResponseSharingRefresh(c, r) ==
    LET call == [calls[c] EXCEPT !.response = r]
        step == firstResponseStep(r, call.autoRefreshToken, refreshTokenFunction)
        shared == \E d \in Running \ {c} : calls[d].pc = "refreshing"
    IN  /\ calls[c].pc = "fetch1"
        /\ Becomes(c,
             CASE step = "throw" ->
                    Throws(call, Error("missing refreshTokenFunction in api client"))
               [] step = "refresh" /\ shared ->
                    [call EXCEPT !.tokenRefreshed = Assigned(TRUE),
                                 !.pc = "refreshed"]
               [] step = "refresh" /\ ~shared ->
                    [call EXCEPT !.refreshCalls = @ + 1, !.pc = "refreshing"]
               [] OTHER -> Returns(call, r))
        /\ UNCHANGED clientVars

ReceiveResponseClearingToken(c, r) ==
    LET call == [calls[c] EXCEPT !.response = r]
        step == firstResponseStep(r, call.autoRefreshToken, refreshTokenFunction)
    IN  /\ calls[c].pc = "fetch1"
        /\ Becomes(c,
             CASE step = "throw" ->
                    Throws(call, Error("missing refreshTokenFunction in api client"))
               [] step = "refresh" ->
                    [call EXCEPT !.refreshCalls = @ + 1, !.pc = "refreshing"]
               [] OTHER -> Returns(call, r))
        /\ accessToken' = IF r.status = 401 THEN Null ELSE accessToken
        /\ UNCHANGED <<apiKey, endpoint, authEndpoint, assetEndpoint, authenticationSession, fetchFunction,
                       requestClass, refreshTokenFunction, userAgent,
                       getExtraSessionInfo>>

\* The first response r arrives (lines 194-200).
ReceiveResponse(c, r) ==
    LET call == [calls[c] EXCEPT !.response = r]
        step == firstResponseStep(r, call.autoRefreshToken, refreshTokenFunction)
    IN  /\ calls[c].pc = "fetch1"
        /\ Becomes(c,
             CASE step = "throw" ->
                    Throws(call, Error("missing refreshTokenFunction in api client"))
               [] step = "refresh" ->
                    [call EXCEPT !.refreshCalls = @ + 1, !.pc = "refreshing"]
               [] OTHER -> Returns(call, r))
        /\ UNCHANGED clientVars

\* The refresh capability resolves with ok, having stored token as the
\* access token (line 200).
RefreshResolves(c, ok, token) ==
    /\ calls[c].pc = "refreshing"
    /\ Becomes(c, [calls[c] EXCEPT !.tokenRefreshed = Assigned(ok),
                                   !.pc = "refreshed"])
    /\ accessToken' = token
    /\ UNCHANGED <<apiKey, endpoint, authEndpoint, assetEndpoint, authenticationSession, fetchFunction,
                   requestClass, refreshTokenFunction, userAgent,
                   getExtraSessionInfo>>

\* The refresh capability rejects: fetch and the call do.
RefreshRejects(c) ==
    /\ calls[c].pc = "refreshing"
    /\ Becomes(c, Throws(calls[c], Error("refreshTokenFunction failed")))
    /\ UNCHANGED clientVars

AfterRefreshAlwaysRetrying(c) ==
    /\ calls[c].pc = "refreshed"
    /\ \/ Becomes(c, [calls[c] EXCEPT !.headers = prepareHeaders,
                                      !.tokenRead = Append(@, accessToken),
                                      !.extraInfoAwaited = getExtraSessionInfo,
                                      !.pc = "prepare2"])
       \/ Becomes(c, Throws(calls[c], RequestClassError))
    /\ UNCHANGED clientVars

\* fetch resumes after the refresh (lines 201-204): when the token was
\* refreshed the headers are prepared again, from the client as it is now;
\* otherwise the first response is returned.  request.clone() (line 202)
\* is the host's: it may throw.
AfterRefresh(c) ==
    /\ calls[c].pc = "refreshed"
    /\ IF calls[c].tokenRefreshed.value
       THEN \/ Becomes(c, [calls[c] EXCEPT !.headers = prepareHeaders,
                                           !.tokenRead = Append(@, accessToken),
                                           !.extraInfoAwaited = getExtraSessionInfo,
                                           !.pc = "prepare2"])
            \/ Becomes(c, Throws(calls[c], RequestClassError))
       ELSE Becomes(c, Returns(calls[c], calls[c].response))
    /\ UNCHANGED clientVars

ReceiveRetryResponseRefreshingAgain(c, r) ==
    /\ calls[c].pc = "fetch2"
    /\ IF shouldRefreshToken(r) /\ calls[c].autoRefreshToken
       THEN Becomes(c, [calls[c] EXCEPT !.response = r, !.refreshCalls = @ + 1,
                                        !.pc = "refreshing"])
       ELSE Becomes(c, Returns(calls[c], r))
    /\ UNCHANGED clientVars

\* The retry's response r arrives (lines 209-213): it is returned, whatever
\* its headers say.
ReceiveRetryResponse(c, r) ==
    /\ calls[c].pc = "fetch2"
    /\ Becomes(c, Returns(calls[c], r))
    /\ UNCHANGED clientVars

TransportFailsSwallowedOnRetry(c) ==
    /\ calls[c].pc \in {"fetch1", "fetch2"}
    /\ IF calls[c].pc = "fetch2"
       THEN Becomes(c, Returns(calls[c], calls[c].response))
       ELSE Becomes(c, Throws(calls[c], Error("network request failed")))
    /\ UNCHANGED clientVars

\* fetchFunction rejects: fetch and the call do.
TransportFails(c) ==
    /\ calls[c].pc \in {"fetch1", "fetch2"}
    /\ Becomes(c, Throws(calls[c], Error("network request failed")))
    /\ UNCHANGED clientVars

\* response.json() settles (line 250): request() decodes the body it read,
\* or the failure to read it (lines 251-276).
JsonSettles(c) ==
    /\ calls[c].pc = "json"
    /\ Becomes(c, [calls[c] EXCEPT !.pc = "done",
                                   !.outcome = requestOutcome(calls[c].requestResponse)])
    /\ UNCHANGED clientVars

\* The operation that called request() has the outcome (an error it hands
\* on as it is); the host may make its next call.
Finish(c) ==
    /\ calls[c].pc = "done"
    /\ Becomes(c, IdleCall)
    /\ UNCHANGED clientVars

-----------------------------------------------------------------------------
(***************************************************************************)
(* The pipeline under every configuration of the client.                    *)
(***************************************************************************)
CallOperation == \E c \in Running : \E i \in PipelineInvocations : Request(c, i)
CallFetch ==
    \E c \in Running : \E f \in DirectFetches :
        fetch(c, "fetch", f.input, f.init, f.options)
Send == \E c \in Running : SendRequest(c)
SupplierFails == \E c \in Running : ExtraSessionInfoFails(c)
Receive == \E c \in Running : \E r \in Responses : ReceiveResponse(c, r)
RefreshDone ==
    \E c \in Running : \E ok \in BOOLEAN : \E t \in AccessTokenValues :
        RefreshResolves(c, ok, t)
RefreshFails == \E c \in Running : RefreshRejects(c)
Resume == \E c \in Running : AfterRefresh(c)
SendRetry == \E c \in Running : SendRetryRequest(c)
ReceiveRetry == \E c \in Running : \E r \in Responses : ReceiveRetryResponse(c, r)
FetchFails == \E c \in Running : TransportFails(c)
Decode == \E c \in Running : JsonSettles(c)
Done == \E c \in Running : Finish(c)

Next ==
    \/ Configure
    \/ CallOperation
    \/ CallFetch
    \/ Send
    \/ SupplierFails
    \/ Receive
    \/ RefreshDone
    \/ RefreshFails
    \/ Resume
    \/ SendRetry
    \/ ReceiveRetry
    \/ FetchFails
    \/ Decode
    \/ Done

Spec == Init /\ [][Next]_vars

-----------------------------------------------------------------------------
(***************************************************************************)
(* The auth-flow operations, each through the same pipeline.                *)
(***************************************************************************)
FlowCall == \E c \in Running : \E i \in AuthFlowInvocations : Request(c, i)
FlowReceive == \E c \in Running : \E r \in FlowResponses : ReceiveResponse(c, r)
FlowReceiveRetry ==
    \E c \in Running : \E r \in FlowResponses : ReceiveRetryResponse(c, r)

NextFlow ==
    \/ InstallCapabilities
    \/ SetAccessToken
    \/ SetAuthenticationSession
    \/ FlowCall
    \/ Send
    \/ FlowReceive
    \/ RefreshDone
    \/ RefreshFails
    \/ Resume
    \/ SendRetry
    \/ FlowReceiveRetry
    \/ FetchFails
    \/ Decode
    \/ Done

SpecFlow == Init /\ [][NextFlow]_vars


-----------------------------------------------------------------------------
(***************************************************************************)
(* Properties of the request pipeline.                                      *)
(***************************************************************************)
\* The number of network exchanges call c has issued.
Exchanges(c) == Len(calls[c].sent)

\* What the caller of c receives when fetch returns r.
Completion(c, r) ==
    IF calls[c].op = "fetch" THEN Return(r) ELSE requestOutcome(r)

\* fetch has returned its response to the caller of c: a direct fetch() has
\* it as its outcome; request() reads its body, and then has what the body
\* decodes to.
HandedOver(c) ==
    /\ calls[c].response # None
    /\ IF calls[c].op = "fetch"
       THEN calls[c].pc = "done" /\ calls[c].outcome = Return(calls[c].response)
       ELSE /\ calls[c].requestResponse = calls[c].response
            /\ \/ calls[c].pc = "json" /\ calls[c].outcome = None
               \/ /\ calls[c].pc = "done"
                  /\ calls[c].outcome = requestOutcome(calls[c].response)

\* In this step the first response of c arrives.
ReceivesFirstResponse(c) ==
    /\ calls[c].pc = "fetch1"
    /\ calls'[c].response # None

\* In this step c is called and gets past fetch's checks of the
\* configuration.
IsCalled(c) ==
    /\ calls[c].pc = "idle"
    /\ calls'[c].request # None

\* The authorization header of a set of headers, as a set of at most one.
AuthorizationOf(hs) ==
    IF "authorization" \in DOMAIN hs THEN {hs["authorization"]} ELSE {}

\* The authorization header a client holding access token t asks for.
AuthorizationFor(t) == IF TruthyString(t) THEN {Bearer(t)} ELSE {}

MissingRefreshTokenFunction ==
    Throw(Error("missing refreshTokenFunction in api client"))

\* Call c failed before its first exchange: it threw, with no request
\* handed to fetchFunction, no response and no refresh.
FailedBeforeFirstExchange(c) ==
    /\ Exchanges(c) = 0
    /\ calls[c].outcome.kind = "throw"
    /\ calls[c].response = None
    /\ calls[c].refreshCalls = 0

\* C1 as stated: every completed call has issued one exchange or two.
C1_OneOrTwoExchanges ==
    \A c \in Running :
        calls[c].pc = "done" => Exchanges(c) \in {1, 2}

\* C1: no call issues more than two exchanges nor refreshes more than once,
\* a stale retry response is returned without a third exchange; a call that
\* got a response has issued one or two, and so has every completed call
\* but one that failed before its first exchange.
C1_AtMostOneRetry ==
    \A c \in Running :
        /\ Exchanges(c) <= 2
        /\ calls[c].refreshCalls <= 1
        /\ calls[c].response # None => Exchanges(c) \in {1, 2}
        /\ calls[c].pc = "done" =>
             \/ Exchanges(c) \in {1, 2}
             \/ FailedBeforeFirstExchange(c)

\* A call has completed with its retry's response, itself marked stale.
C1_StaleRetryReturned ==
    \E c \in Running :
        /\ calls[c].pc = "done"
        /\ Exchanges(c) = 2
        /\ calls[c].outcome = Completion(c, calls[c].response)
        /\ shouldRefreshToken(calls[c].response)

\* C2 as stated: a retry is only issued after a successful refresh, and its
\* authorization header is the one of the access token read after the
\* refresh, not the one sent on the first exchange.
C2_RetryCarriesRefreshedToken ==
    \A c \in Running :
        Exchanges(c) = 2 =>
            /\ calls[c].tokenRefreshed = Assigned(TRUE)
            /\ AuthorizationOf(calls[c].sent[2].headers)
                 = AuthorizationFor(calls[c].tokenRead[2])

\* C3: when the refresh capability resolves false there is no retry, and
\* the caller receives what the first response completes with.
C3_NoRetryWhenRefreshReturnsFalse ==
    \A c \in Running :
        calls[c].tokenRefreshed = Assigned(FALSE) =>
            /\ Exchanges(c) = 1
            /\ calls[c].pc \in {"refreshed", "json", "done"}
            /\ calls[c].pc \in {"json", "done"} =>
                 /\ shouldRefreshToken(calls[c].response)
                 /\ HandedOver(c)

\* A call has completed after its refresh resolved false.
C3_RefreshReturnedFalse ==
    \E c \in Running :
        /\ calls[c].pc = "done"
        /\ calls[c].refreshCalls = 1
        /\ calls[c].tokenRefreshed = Assigned(FALSE)
        /\ calls[c].outcome.kind = "return"

\* C4 as stated: every exchange carries the API key, and an authorization
\* header exactly when the access token read for it is non-empty, its value
\* the bearer form of that token.
C4_HeadersReflectClientState ==
    \A c \in Running :
        \A n \in 1..Exchanges(c) :
            LET hs == calls[c].sent[n].headers
            IN  /\ "x-skygear-api-key" \in DOMAIN hs
                /\ hs["x-skygear-api-key"] = apiKey
                /\ AuthorizationOf(hs) = AuthorizationFor(calls[c].tokenRead[n])

\* In this step the first response of c arrives, marked stale, to a call
\* that asked for the automatic refresh, on a client that has no refresh
\* capability.
StaleWithoutRefreshCapability(c) ==
    /\ ReceivesFirstResponse(c)
    /\ shouldRefreshToken(calls'[c].response)
    /\ calls[c].autoRefreshToken
    /\ ~refreshTokenFunction

\* Call c has failed with the configuration error, after one exchange and
\* without a refresh; request() has no response to decode.
FailedForMissingCapability(c) ==
    /\ calls[c].pc = "done"
    /\ calls[c].outcome = MissingRefreshTokenFunction
    /\ Exchanges(c) = 1
    /\ calls[c].refreshCalls = 0
    /\ calls[c].requestResponse = None

\* C5: a stale first response to a call with the automatic refresh on, on a
\* client without a refresh capability, fails the call with the
\* configuration error; nothing is refreshed, nothing is retried and
\* nothing of the response is decoded.
C5_MissingRefreshCapabilityFails ==
    /\ [](\A c \in Running :
            calls[c].outcome = MissingRefreshTokenFunction =>
                /\ FailedForMissingCapability(c)
                /\ shouldRefreshToken(calls[c].response)
                /\ calls[c].autoRefreshToken)
    /\ [][\A c \in Running :
            StaleWithoutRefreshCapability(c) => FailedForMissingCapability(c)']_vars

\* Such a call has failed.
C5_StaleResponseWithoutCapability ==
    \E c \in Running :
        /\ FailedForMissingCapability(c)
        /\ shouldRefreshToken(calls[c].response)
        /\ calls[c].autoRefreshToken
        /\ ~refreshTokenFunction


\* In this step the first response of c arrives, to a call that asked for
\* the automatic refresh, on a client that has no refresh capability.
RespondedWithoutRefreshCapability(c) ==
    /\ ReceivesFirstResponse(c)
    /\ calls[c].autoRefreshToken
    /\ ~refreshTokenFunction

\* C6 as stated: a call with the automatic refresh on, on a client without
\* a refresh capability, fails with the configuration error whatever the
\* response is.
C6_FailsFastWhateverTheResponse ==
    [][\A c \in Running :
         RespondedWithoutRefreshCapability(c) =>
             calls'[c].outcome = MissingRefreshTokenFunction]_vars

\* C6: such a call fails with the configuration error exactly when its
\* first response is marked stale; any other response completes the call
\* as usual, after one exchange and without a refresh.
C6_FailsOnlyOnStaleResponse ==
    /\ [](\A c \in Running :
            ( /\ calls[c].response # None
              /\ ~shouldRefreshToken(calls[c].response)
              /\ Exchanges(c) = 1 ) =>
                /\ HandedOver(c)
                /\ calls[c].refreshCalls = 0)
    /\ [][\A c \in Running :
            RespondedWithoutRefreshCapability(c) =>
                IF shouldRefreshToken(calls'[c].response)
                THEN FailedForMissingCapability(c)'
                ELSE /\ HandedOver(c)'
                     /\ Len(calls'[c].sent) = 1
                     /\ calls'[c].refreshCalls = 0]_vars

\* A call that asked for the automatic refresh was answered without the
\* stale mark, on a client without a refresh capability, and returned a
\* value.
C6_ProceedsOnFreshResponse ==
    \E c \in Running :
        /\ calls[c].pc = "done"
        /\ calls[c].options = [autoRefreshToken |-> TRUE]
        /\ ~refreshTokenFunction
        /\ HandedOver(c)
        /\ ~shouldRefreshToken(calls[c].response)
        /\ calls[c].outcome.kind = "return"

\* Call c was made without an autoRefreshToken option and got past fetch's
\* checks of the configuration.
Unflagged(c) ==
    /\ calls[c].request # None
    /\ "autoRefreshToken" \notin DOMAIN calls[c].options

\* C7: without the option the automatic refresh is on iff a refresh
\* capability is configured when the call is made; so a call made without
\* a capability neither refreshes nor fails with the configuration error
\* on a stale response: it completes with that response after one exchange.
C7_DefaultFollowsRefreshCapability ==
    /\ [](\A c \in Running :
            (Unflagged(c) /\ ~calls[c].autoRefreshToken) =>
                /\ calls[c].refreshCalls = 0
                /\ Exchanges(c) <= 1
                /\ calls[c].outcome # MissingRefreshTokenFunction
                /\ calls[c].response # None => HandedOver(c))
    /\ [][\A c \in Running :
            (IsCalled(c) /\ Unflagged(c)') =>
                calls'[c].autoRefreshToken = refreshTokenFunction]_vars

\* An unflagged call made on a client without a refresh capability has
\* completed with its stale response.
C7_StaleResponsePropagates ==
    \E c \in Running :
        /\ Unflagged(c)
        /\ ~calls[c].autoRefreshToken
        /\ calls[c].pc = "done"
        /\ calls[c].requestResponse # None
        /\ shouldRefreshToken(calls[c].requestResponse)
        /\ calls[c].outcome = requestOutcome(calls[c].requestResponse)

\* C8: of a parsed envelope, a truthy result is returned as it is; failing
\* that, a truthy error fails the call with the structured error of its
\* name and reason; failing that, the call fails with the generic error.
\* The status plays no part.
C8_EnvelopeDecoding ==
    \A c \in Running :
        ( /\ calls[c].pc = "done"
          /\ calls[c].requestResponse # None
          /\ calls[c].requestResponse.body.parses
          /\ calls[c].requestResponse.body.value.type = "object" ) =>
            LET o == calls[c].requestResponse.body.value.value
                result == Get(o, "result")
                error == Get(o, "error")
                outcome == calls[c].outcome
            IN  IF Truthy(result)
                THEN outcome = Return(result)
                ELSE /\ outcome.kind = "throw"
                     /\ IF Truthy(error)
                        THEN /\ outcome.error.class = "SkygearError"
                             /\ outcome.error.name = error.value.name
                             /\ outcome.error.reason = error.value.reason
                        ELSE outcome.error.class = "Error"

\* A response of status 401 whose envelope has a result returned that
\* result.
C8_ResultOfAnErrorStatus ==
    \E c \in Running :
        /\ calls[c].pc = "done"
        /\ calls[c].requestResponse # None
        /\ calls[c].requestResponse.status = 401
        /\ calls[c].requestResponse.body.parses
        /\ calls[c].outcome = Return(ResultValue)

\* C9: a final response whose body is not JSON fails the call: with
\* "unexpected status code" and the status when the status is outside
\* [200, 300), with "failed to decode response JSON" and no status inside.
C9_UnparsableBody ==
    \A c \in Running :
        ( /\ calls[c].pc = "done"
          /\ calls[c].requestResponse # None
          /\ ~calls[c].requestResponse.body.parses ) =>
            LET status == calls[c].requestResponse.status
                outcome == calls[c].outcome
            IN  /\ outcome.kind = "throw"
                /\ IF status < 200 \/ status >= 300
                   THEN /\ outcome.error.message = "unexpected status code"
                        /\ "info" \in DOMAIN outcome.error
                        /\ outcome.error.info.status_code = status
                   ELSE /\ outcome.error.message = "failed to decode response JSON"
                        /\ "info" \notin DOMAIN outcome.error

\* A response of status 299 without a JSON body has failed a call.
C9_UnparsableBodyOfStatus299 ==
    \E c \in Running :
        /\ calls[c].pc = "done"
        /\ calls[c].requestResponse # None
        /\ ~calls[c].requestResponse.body.parses
        /\ calls[c].requestResponse.status = 299
        /\ calls[c].outcome.kind = "throw"

\* The payload p carries the authentication session token t, or none when
\* none is held.
CarriesSessionToken(p, t) ==
    IF t # Null
    THEN "authn_session_token" \in DOMAIN p /\ p["authn_session_token"] = t
    ELSE "authn_session_token" \notin DOMAIN p

\* C10: the payload of every MFA-step operation, on each of its exchanges,
\* carries as authn_session_token the authentication session token held
\* when the operation was called, and no such field when none was held.
C10_MFAStepsCarrySessionToken ==
    \A c \in Running :
        calls[c].op \in MFAStepOperations =>
            /\ calls[c].request # None =>
                 CarriesSessionToken(calls[c].request.body, calls[c].sessionAtCall)
            /\ \A n \in 1..Exchanges(c) :
                 CarriesSessionToken(calls[c].sent[n].body, calls[c].sessionAtCall)

\* An MFA-step operation called with a session token has been retried
\* after the client's session was replaced.
C10_RetriedAfterSessionChanged ==
    \E c \in Running :
        /\ calls[c].op \in MFAStepOperations
        /\ Exchanges(c) = 2
        /\ calls[c].sessionAtCall # Null
        /\ authenticationSession # calls[c].sessionAtCall

-----------------------------------------------------------------------------
(***************************************************************************)
(* The enrollment and authenticator-management operations (lines 638-750). *)
(***************************************************************************)
DisplayNames == {"display-1"}
Issuers == {"issuer-1"}
AccountNames == {"account-1"}
OOBContacts ==
    {[channel |-> "sms", phone |-> "phone-1", email |-> Undefined],
     [channel |-> "email", phone |-> Undefined, email |-> "email-1"]}
DeletedAuthenticatorIDs == {"authenticator-1"}

listRecoveryCode ==
    post(Path("_auth/mfa/recovery_code/list"), [json |-> EmptyObject])

regenerateRecoveryCode ==
    post(Path("_auth/mfa/recovery_code/regenerate"), [json |-> EmptyObject])

getAuthenticators ==
    post(Path("_auth/mfa/authenticator/list"),
         [json |-> makePayloadWithAuthenticationSessionToken(EmptyObject)])

deleteAuthenticator(id) ==
    post(Path("_auth/mfa/authenticator/delete"),
         [json |-> ("authenticator_id" :> id)])

createNewTOTP(options) ==
    post(Path("_auth/mfa/totp/new"),
         [json |-> makePayloadWithAuthenticationSessionToken(
            ("display_name" :> options.displayName)
            @@ ("issuer" :> options.issuer)
            @@ ("account_name" :> options.accountName))])

createNewOOB(options) ==
    post(Path("_auth/mfa/oob/new"),
         [json |-> makePayloadWithAuthenticationSessionToken(
            ("channel" :> options.channel)
            @@ ("phone" :> options.phone)
            @@ ("email" :> options.email))])

\* The enrollment and authenticator-management operations.
EnrollmentOperations ==
    {"createNewTOTP", "createNewOOB", "activateTOTP", "activateOOB",
     "getAuthenticators", "deleteAuthenticator", "listRecoveryCode",
     "regenerateRecoveryCode"}

\* Every invocation of an enrollment operation the host may make now.
EnrollmentInvocations ==
    {Invocation("listRecoveryCode", listRecoveryCode),
     Invocation("regenerateRecoveryCode", regenerateRecoveryCode),
     Invocation("getAuthenticators", getAuthenticators)}
    \cup {Invocation("deleteAuthenticator", deleteAuthenticator(x)) :
            x \in DeletedAuthenticatorIDs}
    \cup {Invocation("createNewTOTP",
                     createNewTOTP([displayName |-> x, issuer |-> y,
                                    accountName |-> z])) :
            x \in DisplayNames, y \in Issuers, z \in AccountNames}
    \cup {Invocation("createNewOOB", createNewOOB(x)) : x \in OOBContacts}
    \cup {Invocation("activateTOTP", activateTOTP(x)) : x \in OTPs}
    \cup {Invocation("activateOOB", activateOOB(x)) : x \in Codes}

EnrollCall == \E c \in Running : \E i \in EnrollmentInvocations : Request(c, i)

NextEnroll ==
    \/ InstallCapabilities
    \/ SetAccessToken
    \/ SetAuthenticationSession
    \/ EnrollCall
    \/ Send
    \/ FlowReceive
    \/ RefreshDone
    \/ RefreshFails
    \/ Resume
    \/ SendRetry
    \/ FlowReceiveRetry
    \/ FetchFails
    \/ Decode
    \/ Done

SpecEnroll == Init /\ [][NextEnroll]_vars

\* C11 as stated: the payload of every enrollment and authenticator-
\* management operation carries as authn_session_token the authentication
\* session token held when it was called, and no such field when none was
\* held.
C11_EnrollmentCarriesSessionToken ==
    \A c \in Running :
        calls[c].op \in EnrollmentOperations =>
            \A n \in 1..Exchanges(c) :
                CarriesSessionToken(calls[c].sent[n].body, calls[c].sessionAtCall)

\* The operations among them that do thread the token.
ThreadingEnrollmentOperations ==
    EnrollmentOperations
        \ {"deleteAuthenticator", "listRecoveryCode", "regenerateRecoveryCode"}

\* What does hold: createNewTOTP, createNewOOB, activateTOTP, activateOOB
\* and getAuthenticators thread the token; deleteAuthenticator,
\* listRecoveryCode and regenerateRecoveryCode never send the field.
EnrollmentThreading ==
    \A c \in Running : \A n \in 1..Exchanges(c) :
        /\ calls[c].op \in ThreadingEnrollmentOperations =>
             CarriesSessionToken(calls[c].sent[n].body, calls[c].sessionAtCall)
        /\ calls[c].op \in EnrollmentOperations \ ThreadingEnrollmentOperations =>
             "authn_session_token" \notin DOMAIN calls[c].sent[n].body

-----------------------------------------------------------------------------
(***************************************************************************)
(* An authentication attempt: login (lines 363-374), the MFA steps, and    *)
(* what the owner of the client does with each answer.  The client only    *)
(* declares _accessToken and _authenticationSession (lines 84-91) and      *)
(* reads them; the writes on a full and on a partial answer are those the  *)
(* specification of the session lifecycle describes.                       *)
(***************************************************************************)
LoginIDs == {"a@b.com"}
Passwords == {"pw"}
LoginIDKeys == {Undefined, "email"}

login(loginID, password, options) ==
    post(Path("_auth/login"),
         [json |-> ("password" :> password)
                   @@ ("login_id" :> loginID)
                   @@ ("login_id_key" :> options.loginIDKey)])

\* The operations that answer through postAndReturnAuthResponse
\* (lines 308-318).
AuthResponseOperations ==
    {"login", "me", "updateLoginID", "authenticateWithRecoveryCode",
     "authenticateWithTOTP", "authenticateWithOOB",
     "authenticateWithBearerToken"}

LoginFlowInvocations ==
    {Invocation("login", login(x, y, [loginIDKey |-> z])) :
        x \in LoginIDs, y \in Passwords, z \in LoginIDKeys}
    \cup {i \in AuthFlowInvocations : i.op \in MFAStepOperations}
    \cup {Invocation("me", me)}

\* A full answer: a result with an access token.
FullAuthResponse(token) == JObject(("access_token" :> JString(token)))
\* A partial answer: a fresh authentication session token, a second
\* factor being required.
PartialAuthResponse(token) == JObject(("authn_session_token" :> JString(token)))

LoginResponses ==
    {[status |-> 200, headers |-> EmptyObject,
      body |-> Parsed(JObject(("result" :> FullAuthResponse(t))))] : t \in Tokens}
    \cup
    {[status |-> 200, headers |-> EmptyObject,
      body |-> Parsed(JObject(("result" :> PartialAuthResponse(s))))] :
        s \in SessionTokens}
    \cup
    {[status |-> 401, headers |-> h,
      body |-> Parsed(JObject(("error" :> ErrorValue)))] :
        h \in {EmptyObject, ("x-skygear-try-refresh-token" :> "true")}}

\* decodeAuthResponse of ./encoding: the access token and the
\* authentication session token of a result, Undefined when it has none.
decodeAuthResponse(result) ==
    [accessToken |->
        IF result.type = "object" /\ "access_token" \in DOMAIN result.value
        THEN result.value["access_token"].value ELSE Undefined,
     authenticationSessionToken |->
        IF result.type = "object" /\ "authn_session_token" \in DOMAIN result.value
        THEN result.value["authn_session_token"].value ELSE Undefined]

\* Call c returned a full AuthResponse.
ReturnedFull(call) ==
    /\ call.op \in AuthResponseOperations
    /\ call.outcome.kind = "return"
    /\ decodeAuthResponse(call.outcome.value).accessToken # Undefined

\* Call c returned a partial answer.
ReturnedPartial(call) ==
    /\ call.op \in AuthResponseOperations
    /\ call.outcome.kind = "return"
    /\ decodeAuthResponse(call.outcome.value).accessToken = Undefined
    /\ decodeAuthResponse(call.outcome.value).authenticationSessionToken # Undefined

\* The owner of the client takes the outcome of call c: a full AuthResponse
\* is stored as the access token and ends the authentication session; a
\* partial answer starts (or replaces) the authentication session; anything
\* else changes nothing.
handleAuthResponse(c) ==
    /\ calls[c].pc = "done"
    /\ Becomes(c, [calls[c] EXCEPT !.pc = "handled"])
    /\ IF ReturnedFull(calls[c])
       THEN /\ accessToken' = decodeAuthResponse(calls[c].outcome.value).accessToken
            /\ authenticationSession' = Null
       ELSE IF ReturnedPartial(calls[c])
       THEN /\ authenticationSession' =
                 decodeAuthResponse(calls[c].outcome.value).authenticationSessionToken
            /\ UNCHANGED accessToken
       ELSE UNCHANGED <<accessToken, authenticationSession>>
    /\ UNCHANGED <<apiKey, endpoint, authEndpoint, assetEndpoint, fetchFunction, requestClass,
                   refreshTokenFunction, userAgent, getExtraSessionInfo>>

\* The operation is over; the host may make its next call.
FinishHandled(c) ==
    /\ calls[c].pc = "handled"
    /\ Becomes(c, IdleCall)
    /\ UNCHANGED clientVars

LoginCall == \E c \in Running : \E i \in LoginFlowInvocations : Request(c, i)
LoginReceive == \E c \in Running : \E r \in LoginResponses : ReceiveResponse(c, r)
LoginReceiveRetry ==
    \E c \in Running : \E r \in LoginResponses : ReceiveRetryResponse(c, r)
Handle == \E c \in Running : handleAuthResponse(c)
Handled == \E c \in Running : FinishHandled(c)

NextLogin ==
    \/ InstallCapabilities
    \/ SetAccessToken
    \/ SetAuthenticationSession
    \/ LoginCall
    \/ Send
    \/ LoginReceive
    \/ RefreshDone
    \/ RefreshFails
    \/ Resume
    \/ SendRetry
    \/ LoginReceiveRetry
    \/ FetchFails
    \/ Decode
    \/ Handle
    \/ Handled

SpecLogin == Init /\ [][NextLogin]_vars

\* The service answered call c, an operation that answers an AuthResponse,
\* with a body whose result is the full answer of access token t.
AnsweredFull(c, t) ==
    /\ calls[c].op \in AuthResponseOperations
    /\ calls[c].requestResponse # None
    /\ calls[c].requestResponse.body
         = Parsed(JObject(("result" :> FullAuthResponse(t))))

\* The service answered call c with a body whose result is the partial
\* answer of session token s.
AnsweredPartial(c, s) ==
    /\ calls[c].op \in AuthResponseOperations
    /\ calls[c].requestResponse # None
    /\ calls[c].requestResponse.body
         = Parsed(JObject(("result" :> PartialAuthResponse(s))))

\* In this step the owner of the client takes the outcome of call c.
TakesAnswer(c) ==
    /\ calls[c].pc = "done"
    /\ calls'[c].pc = "handled"

\* Taking the outcome of a call the service answered in full stores the
\* access token of that answer and drops the session; taking one answered
\* in part stores the session token of that answer; taking any other
\* outcome changes neither.
AnswerStored(c) ==
    TakesAnswer(c) =>
        IF \E t \in Tokens : AnsweredFull(c, t)
        THEN /\ AnsweredFull(c, accessToken')
             /\ authenticationSession' = Null
        ELSE IF \E t \in SessionTokens : AnsweredPartial(c, t)
        THEN /\ AnsweredPartial(c, authenticationSession')
             /\ accessToken' = accessToken
        ELSE /\ accessToken' = accessToken
             /\ authenticationSession' = authenticationSession

\* An MFA step is called with the session the client holds at that moment
\* and has it, or no such field when none is held, in the payload of each
\* of its exchanges, whatever becomes of the session meanwhile.
SessionAttached(c) ==
    calls[c].op \in MFAStepOperations =>
        /\ calls[c].request # None =>
             CarriesSessionToken(calls[c].request.body, calls[c].sessionAtCall)
        /\ \A n \in 1..Exchanges(c) :
             CarriesSessionToken(calls[c].sent[n].body, calls[c].sessionAtCall)

\* The session is the one held when the call is made.
CalledWithHeldSession(c) ==
    IsCalled(c) => calls'[c].sessionAtCall = authenticationSession

\* No step of a call changes the session the client holds: it changes only
\* when an outcome is taken or its owner assigns it.
SessionHeld ==
    authenticationSession' # authenticationSession =>
        \/ calls' = calls
        \/ \E c \in Running : TakesAnswer(c)

-----------------------------------------------------------------------------
(***************************************************************************)
(* Two authentication attempts on one client, their calls in flight at the *)
(* same time: every await of fetch is a point where the other call may     *)
(* run.                                                                    *)
(***************************************************************************)
Attempts == {"attempt1", "attempt2"}

\* The authentication session token the service issues to an attempt.
IssuedTo(a) == IF a = "attempt1" THEN SessionTokenNames[1] ELSE SessionTokenNames[2]

InitAttempts == InitClient /\ calls = [a \in Attempts |-> IdleCall]

AttemptInvocations ==
    {Invocation("login", login(x, y, [loginIDKey |-> Undefined])) :
        x \in LoginIDs, y \in Passwords}
    \cup {Invocation("authenticateWithTOTP",
                     authenticateWithTOTP([otp |-> x,
                                           skipMFAForCurrentDevice |-> Undefined])) :
            x \in OTPs}

\* What the service answers attempt a with: a full answer, a partial answer
\* with the session token it issues to a, or the stale-token mark.
AttemptResponses(a) ==
    {[status |-> 200, headers |-> EmptyObject,
      body |-> Parsed(JObject(("result" :> FullAuthResponse(TokenNames[1]))))],
     [status |-> 200, headers |-> EmptyObject,
      body |-> Parsed(JObject(("result" :> PartialAuthResponse(IssuedTo(a)))))],
     [status |-> 401, headers |-> ("x-skygear-try-refresh-token" :> "true"),
      body |-> Parsed(JObject(("error" :> ErrorValue)))]}

AttemptCall == \E a \in Running : \E i \in AttemptInvocations : Request(a, i)
AttemptReceive ==
    \E a \in Running : \E r \in AttemptResponses(a) : ReceiveResponse(a, r)
AttemptReceiveRetry ==
    \E a \in Running : \E r \in AttemptResponses(a) : ReceiveRetryResponse(a, r)
AttemptRefreshDone ==
    \E a \in Running : \E ok \in BOOLEAN : RefreshResolves(a, ok, TokenNames[2])

NextAttempts ==
    \/ InstallCapabilities
    \/ AttemptCall
    \/ Send
    \/ AttemptReceive
    \/ AttemptRefreshDone
    \/ RefreshFails
    \/ Resume
    \/ SendRetry
    \/ AttemptReceiveRetry
    \/ FetchFails
    \/ Decode
    \/ Handle
    \/ Handled

SpecAttempts == InitAttempts /\ [][NextAttempts]_vars

\* C13 as stated: with two authentication attempts on one client, no
\* payload of an MFA step of one attempt carries the authentication session
\* token issued to the other.
C13_SessionTokenNotShared ==
    \A a \in Running : \A n \in 1..Exchanges(a) :
        calls[a].op \in MFAStepOperations =>
            \A b \in Running \ {a} :
                ~CarriesSessionToken(calls[a].sent[n].body, IssuedTo(b))

\* The first response of call a is in, marked stale, and a asked for the
\* automatic refresh on a client with a refresh capability.
ObservedStale(a) ==
    /\ Exchanges(a) = 1
    /\ calls[a].response # None
    /\ shouldRefreshToken(calls[a].response)
    /\ calls[a].autoRefreshToken
    /\ refreshTokenFunction

\* C14: whatever the other calls in flight are doing, a call that observes
\* a stale first response invokes the refresh capability itself, once; no
\* call invokes it twice or issues more than one retry, and a retry follows
\* the call's own refresh.
C14_EachCallRefreshesItself ==
    \A a \in Running :
        /\ ObservedStale(a) => calls[a].refreshCalls = 1
        /\ calls[a].refreshCalls <= 1
        /\ Exchanges(a) <= 2
        /\ Exchanges(a) = 2 =>
             calls[a].refreshCalls = 1 /\ calls[a].tokenRefreshed = Assigned(TRUE)

\* Two calls in flight have both observed a stale response, and both their
\* refreshes are under way at once.
C14_OverlappingRefreshes ==
    \E a, b \in Running :
        /\ a # b
        /\ ObservedStale(a) /\ ObservedStale(b)
        /\ calls[a].pc = "refreshing" /\ calls[b].pc = "refreshing"
        /\ calls[a].refreshCalls + calls[b].refreshCalls = 2

-----------------------------------------------------------------------------
(***************************************************************************)
(* The login ID operations (lines 595-636).  A nested JSON object of a     *)
(* payload is written as its properties under their paths.                 *)
(***************************************************************************)
\* Identifier objects with no key, one key and two keys.
LoginIDObjects ==
    {EmptyObject,
     ("email" :> "a@b.com"),
     ("email" :> "a@b.com") @@ ("username" :> "alice")}

extractSingleKeyValueAtLeastOne(o, errorMessage) ==
    LET keys == DOMAIN o
    IN  IF Cardinality(keys) < 1
        THEN Throw(Error(errorMessage))
        ELSE LET key == CHOOSE k \in keys : TRUE
             IN  Return([key |-> key, value |-> o[key]])

\* extractSingleKeyValue (lines 65-74): the key and the value of an object
\* of exactly one key.
extractSingleKeyValue(o, errorMessage) ==
    LET keys == DOMAIN o
    IN  IF Cardinality(keys) # 1
        THEN Throw(Error(errorMessage))
        ELSE LET key == CHOOSE k \in keys : TRUE
             IN  Return([key |-> key, value |-> o[key]])

\* The properties of the object kv under the path prefix.
Nested(prefix, kv) ==
    (<<prefix, ".key">> :> kv.key) @@ (<<prefix, ".value">> :> kv.value)

\* The first error among the outcomes of a sequence, none when there is
\* none.
FirstThrow(outcomes) ==
    LET failed == {n \in 1..Len(outcomes) : outcomes[n].kind = "throw"}
    IN  IF failed = {} THEN None
        ELSE outcomes[CHOOSE n \in failed : \A m \in failed : n <= m]

\* Each operation answers the error it throws, or the request it hands to
\* post().
addLoginID(loginIDs) ==
    LET mapped == [n \in 1..Len(loginIDs) |->
                     extractSingleKeyValue(loginIDs[n],
                                           "must provide exactly one login ID")]
    IN  IF FirstThrow(mapped) # None
        THEN FirstThrow(mapped)
        ELSE Return(post(Path("_auth/login_id/add"),
                 [json |-> [p \in {<<"login_ids", n, f>> :
                                      n \in 1..Len(loginIDs), f \in {".key", ".value"}} |->
                              IF p[3] = ".key" THEN mapped[p[2]].value.key
                              ELSE mapped[p[2]].value.value]]))

removeLoginID(loginID) ==
    LET kv == extractSingleKeyValue(loginID, "must provide exactly one login ID")
    IN  IF kv.kind = "throw" THEN kv
        ELSE Return(post(Path("_auth/login_id/remove"),
                         [json |-> ("key" :> kv.value.key)
                                   @@ ("value" :> kv.value.value)]))

updateLoginID(oldLoginID, newLoginID) ==
    LET old == extractSingleKeyValue(oldLoginID,
                                     "must provide exactly one old login ID")
        new == extractSingleKeyValue(newLoginID,
                                     "must provide exactly one new login ID")
    IN  IF old.kind = "throw" THEN old
        ELSE IF new.kind = "throw" THEN new
        ELSE Return(post(Path("_auth/login_id/update"),
                         [json |-> Nested("old_login_id", old.value)
                                   @@ Nested("new_login_id", new.value)]))

LoginIDOperations == {"addLoginID", "removeLoginID", "updateLoginID"}

\* How many login IDs addLoginID is called with, at most.
MaxLoginIDs == 2

LoginIDSequences ==
    UNION {[1..n -> LoginIDObjects] : n \in 0..MaxLoginIDs}

\* Every invocation of a login ID operation: its name, the identifier
\* objects it is given, and what the operation makes of them.
LoginIDInvocations ==
    {[op |-> "addLoginID", args |-> xs, result |-> addLoginID(xs)] :
        xs \in LoginIDSequences}
    \cup {[op |-> "removeLoginID", args |-> <<x>>, result |-> removeLoginID(x)] :
            x \in LoginIDObjects}
    \cup {[op |-> "updateLoginID", args |-> <<x, y>>,
           result |-> updateLoginID(x, y)] :
            x \in LoginIDObjects, y \in LoginIDObjects}

\* The host invokes the login ID operation i: it rejects with the error of
\* extractSingleKeyValue, or calls post().
InvokeLoginIDOperation(c, i) ==
    IF i.result.kind = "throw"
    THEN /\ calls[c].pc = "idle"
         /\ Becomes(c, Throws([calls[c] EXCEPT !.op = i.op], i.result.error))
         /\ UNCHANGED clientVars
    ELSE Request(c, Invocation(i.op, i.result.value))

LoginIDCall ==
    \E c \in Running : \E i \in LoginIDInvocations : InvokeLoginIDOperation(c, i)

NextLoginID ==
    \/ InstallCapabilities
    \/ SetAccessToken
    \/ LoginIDCall
    \/ Send
    \/ FlowReceive
    \/ RefreshDone
    \/ RefreshFails
    \/ Resume
    \/ SendRetry
    \/ FlowReceiveRetry
    \/ FetchFails
    \/ Decode
    \/ Done

SpecLoginID == Init /\ [][NextLoginID]_vars

\* Some identifier object among args has no key, or several.
HasMalformedIdentifier(args) ==
    \E n \in 1..Len(args) : Cardinality(DOMAIN args[n]) # 1

\* The errors of the login ID operations.
LoginIDErrors ==
    {Error("must provide exactly one login ID"),
     Error("must provide exactly one old login ID"),
     Error("must provide exactly one new login ID")}

\* Call c has been rejected for its identifiers: nothing was sent and
\* nothing refreshed.
RejectedForItsIdentifiers(call) ==
    /\ call.pc = "done"
    /\ call.outcome.kind = "throw"
    /\ call.outcome.error \in LoginIDErrors
    /\ call.request = None
    /\ call.sent = <<>>
    /\ call.refreshCalls = 0

\* C15: a login ID operation given an identifier object whose number of
\* keys is not one rejects at once, with no exchange and no refresh; and an
\* operation that rejected so never has an exchange.
C15_MalformedLoginIDRejected ==
    [][\A c \in Running : \A i \in LoginIDInvocations :
          /\ ( HasMalformedIdentifier(i.args) /\ InvokeLoginIDOperation(c, i) )
                => RejectedForItsIdentifiers(calls'[c])
          /\ ( calls'[c].outcome # None
               /\ calls'[c].outcome.kind = "throw"
               /\ calls'[c].outcome.error \in LoginIDErrors )
                => RejectedForItsIdentifiers(calls'[c])]_vars

\* updateLoginID has been rejected for its new identifier, the old one
\* being well formed.
C15_NewLoginIDRejected ==
    \E c \in Running :
        /\ calls[c].op = "updateLoginID"
        /\ RejectedForItsIdentifiers(calls[c])
        /\ calls[c].outcome.error = Error("must provide exactly one new login ID")
        /\ fetchFunction /\ requestClass /\ refreshTokenFunction

-----------------------------------------------------------------------------
(***************************************************************************)
(* Endpoints (lines 36-58).  A string is the sequence of its characters.   *)
(* A character that cannot be written between the quotes of this module is *)
(* written as its code point: "<U+2028>" is the line separator, "<U+2029>" *)
(* the paragraph separator and "<U+0060>" the grave accent.                *)
(***************************************************************************)
HttpPrefix == <<"h", "t", "t", "p", ":", "/", "/">>
HttpsPrefix == <<"h", "t", "t", "p", "s", ":", "/", "/">>
SlashSlashPrefix == <<"/", "/">>

\* The alternatives of the group (http:\/\/|https:\/\/|\/\/), in the order
\* the expression tries them.
EndpointPrefixes == <<HttpPrefix, HttpsPrefix, SlashSlashPrefix>>

\* The characters "." of a regular expression does not match: line feed,
\* carriage return, line separator and paragraph separator.
LineTerminators == {"\n", "\r", "<U+2028>", "<U+2029>"}

StartsWith(s, prefix) ==
    /\ Len(s) >= Len(prefix)
    /\ SubSeq(s, 1, Len(prefix)) = prefix

Rest(s, prefix) == SubSeq(s, Len(prefix) + 1, Len(s))

\* (.*)$ matches s: all of it, which no line terminator may be part of.
DotStarMatches(s) == \A n \in 1..Len(s) : s[n] \notin LineTerminators

\* The match of /^(http:\/\/|https:\/\/|\/\/)(.*)$/ in s: the alternatives
\* that match, in order, each with its two groups.
EndpointMatches(s) ==
    SelectSeq([n \in 1..Len(EndpointPrefixes) |->
                 [prefix |-> EndpointPrefixes[n],
                  rest |-> IF StartsWith(s, EndpointPrefixes[n])
                           THEN Rest(s, EndpointPrefixes[n]) ELSE <<>>,
                  matches |-> /\ StartsWith(s, EndpointPrefixes[n])
                              /\ DotStarMatches(Rest(s, EndpointPrefixes[n]))]],
              LAMBDA m : m.matches)

Digits == <<"1", "2", "3", "4", "5", "6", "7", "8", "9">>
IsDigit(ch) == ch = "0" \/ \E n \in 1..9 : Digits[n] = ch
DigitValue(ch) == IF ch = "0" THEN 0 ELSE CHOOSE n \in 1..9 : Digits[n] = ch

\* The replacement text of String.prototype.replace for the template, the
\* match being the whole of matched with the given groups: $$ is a dollar,
\* $& the match, $ with a grave accent and $' what precedes and follows
\* it (nothing, here: the expression matches from ^ to $),
\* $n and $nn a group; any other dollar stands for itself.
RECURSIVE GetSubstitution(_, _, _)
GetSubstitution(template, matched, groups) ==
    IF template = <<>> THEN <<>>
    ELSE IF Head(template) # "$" \/ Len(template) = 1
    THEN <<Head(template)>> \o GetSubstitution(Tail(template), matched, groups)
    ELSE LET next == template[2]
             after(n) == GetSubstitution(SubSeq(template, n + 1, Len(template)),
                                         matched, groups)
             two == IF Len(template) >= 3 /\ IsDigit(next) /\ IsDigit(template[3])
                    THEN 10 * DigitValue(next) + DigitValue(template[3]) ELSE 0
             one == IF IsDigit(next) THEN DigitValue(next) ELSE 0
         IN  CASE next = "$" -> <<"$">> \o after(2)
               [] next = "&" -> matched \o after(2)
               [] next = "<U+0060>" -> after(2)
               [] next = "'" -> after(2)
               [] two >= 1 /\ two <= Len(groups) -> groups[two] \o after(3)
               [] one >= 1 /\ one <= Len(groups) -> groups[one] \o after(2)
               [] OTHER -> <<"$">> \o after(1)

\* appEndpoint.replace(/^(http:\/\/|https:\/\/|\/\/)(.*)$/g,
\*                     `$1${gearSubdomain}.$2`)  (lines 49-52)
replaceEndpoint(appEndpoint, gearSubdomain) ==
    LET ms == EndpointMatches(appEndpoint)
    IN  IF ms = <<>> THEN appEndpoint
        ELSE GetSubstitution(<<"$", "1">> \o gearSubdomain \o <<".", "$", "2">>,
                             appEndpoint, <<ms[1].prefix, ms[1].rest>>)

_gearEndpointUnchecked(appEndpoint, gearSubdomain) ==
    Return(replaceEndpoint(appEndpoint, gearSubdomain))

\* _gearEndpoint (lines 45-58).
_gearEndpoint(appEndpoint, gearSubdomain) ==
    LET derived == replaceEndpoint(appEndpoint, gearSubdomain)
    IN  IF derived = appEndpoint
        THEN Throw(Error("invalid app endpoint"))
        ELSE Return(derived)

\* The longest tail of an endpoint and the longest gear label tried.
MaxRest == 2
MaxGear == 2

EndpointHeads ==
    {<<>>, HttpPrefix, HttpsPrefix, SlashSlashPrefix,
     <<"h", "t", "t", "p", ":", "/">>,
     <<"/">>,
     <<"H", "T", "T", "P", ":", "/", "/">>,
     <<"f", "t", "p", ":", "/", "/">>,
     <<"x">> \o HttpPrefix}
EndpointChars == {"a", ".", "/", ":", "\n", "<U+2028>"}
GearChars == {"a", "$", "&", "1", "'"}

StringsOver(chars, max) == UNION {[1..n -> chars] : n \in 0..max}

AppEndpoints ==
    {head \o rest : head \in EndpointHeads, rest \in StringsOver(EndpointChars, MaxRest)}
GearSubdomains == StringsOver(GearChars, MaxGear)

\* A call of _gearEndpoint that has not run yet.
GearCalls ==
    {[pc |-> "idle", op |-> "_gearEndpoint", appEndpoint |-> e,
      gearSubdomain |-> g, outcome |-> None] :
        e \in AppEndpoints, g \in GearSubdomains}

InitGear == InitClient /\ calls \in [Calls -> GearCalls]

DeriveGearEndpoint ==
    \E c \in Running :
        /\ calls[c].pc = "idle"
        /\ Becomes(c, [calls[c] EXCEPT
                 !.pc = "done",
                 !.outcome = _gearEndpoint(calls[c].appEndpoint,
                                           calls[c].gearSubdomain)])
        /\ UNCHANGED clientVars

NextGear == DeriveGearEndpoint

SpecGear == InitGear /\ [][NextGear]_vars

\* The prefixes of s among http://, https:// and //: one at most.
PrefixesOf(s) ==
    {p \in {HttpPrefix, HttpsPrefix, SlashSlashPrefix} : StartsWith(s, p)}

Contains(s, chars) == \E n \in 1..Len(s) : s[n] \in chars

\* E with G and a dot inserted after its prefix p.
Inserted(E, G, p) == p \o G \o <<".">> \o Rest(E, p)

\* C16 as stated: of every E and G, a returned value differs from E and the
\* only failure is 'invalid app endpoint'; an E that starts with http://,
\* https:// or // yields E with "G." inserted after that prefix, and any
\* other E fails.
C16_GearInsertedForEveryInput ==
    \A c \in Running :
        calls[c].pc = "done" =>
            LET E == calls[c].appEndpoint
                G == calls[c].gearSubdomain
                out == calls[c].outcome
            IN  /\ out.kind = "return" => out.value # E
                /\ out.kind = "throw" => out.error = Error("invalid app endpoint")
                /\ \A p \in PrefixesOf(E) : out = Return(Inserted(E, G, p))
                /\ PrefixesOf(E) = {} => out.kind = "throw"

\* C16: the same, the insertion being claimed only of an E without a line
\* terminator and a G without a dollar sign.
C16_GearInserted ==
    \A c \in Running :
        calls[c].pc = "done" =>
            LET E == calls[c].appEndpoint
                G == calls[c].gearSubdomain
                out == calls[c].outcome
            IN  /\ out.kind = "return" => out.value # E
                /\ out.kind = "throw" => out.error = Error("invalid app endpoint")
                /\ (~Contains(E, LineTerminators) /\ ~Contains(G, {"$"})) =>
                     \A p \in PrefixesOf(E) : out = Return(Inserted(E, G, p))
                /\ PrefixesOf(E) = {} => out.kind = "throw"

\* The gear label "a1" was inserted into https://a.
C16_GearInsertedIntoHttps ==
    \E c \in Running :
        /\ calls[c].pc = "done"
        /\ calls[c].appEndpoint = HttpsPrefix \o <<"a">>
        /\ calls[c].gearSubdomain = <<"a", "1">>
        /\ calls[c].outcome = Return(HttpsPrefix \o <<"a", "1", ".", "a">>)

-----------------------------------------------------------------------------
(***************************************************************************)
(* Further properties of the request pipeline.                              *)
(***************************************************************************)
\* The response r carries x-skygear-try-refresh-token: true, literally.
MarkedStale(r) ==
    /\ "x-skygear-try-refresh-token" \in DOMAIN r.headers
    /\ r.headers["x-skygear-try-refresh-token"] = "true"

\* The response call c holds is its first: no retry has been answered.
HoldsFirstResponse(c) ==
    /\ calls[c].response # None
    /\ \/ Exchanges(c) = 1
       \/ calls[c].pc = "fetch2"

\* C17: a call invokes the refresh capability at most once, after its first
\* exchange is answered, and only when that answer is marked with the
\* literal "true" and the automatic refresh is on; a retry is only issued
\* once the refresh has returned true.  With the automatic refresh off, or
\* with another header value, the call never invokes it.
C17_RefreshOnlyOnStaleFirstResponse ==
    \A c \in Running :
        /\ calls[c].refreshCalls <= 1
        /\ calls[c].refreshCalls = 1 =>
             /\ Exchanges(c) >= 1
             /\ calls[c].autoRefreshToken
             /\ calls[c].response # None
             /\ HoldsFirstResponse(c) => MarkedStale(calls[c].response)
        /\ calls[c].pc = "refreshing" =>
             /\ calls[c].refreshCalls = 1
             /\ Exchanges(c) = 1
             /\ calls[c].tokenRefreshed = None
        /\ Exchanges(c) = 2 =>
             /\ calls[c].refreshCalls = 1
             /\ calls[c].tokenRefreshed = Assigned(TRUE)
        /\ ~calls[c].autoRefreshToken => calls[c].refreshCalls = 0
        /\ (HoldsFirstResponse(c) /\ ~MarkedStale(calls[c].response)) =>
             calls[c].refreshCalls = 0 /\ calls[c].pc \in {"json", "done"}

\* A call with the automatic refresh on was answered with the header value
\* "false" and completed without a refresh.
C17_OtherHeaderValueIgnored ==
    \E c \in Running :
        /\ calls[c].pc = "done"
        /\ calls[c].autoRefreshToken
        /\ refreshTokenFunction
        /\ calls[c].response # None
        /\ "x-skygear-try-refresh-token" \in DOMAIN calls[c].response.headers
        /\ ~MarkedStale(calls[c].response)
        /\ calls[c].refreshCalls = 0

\* The errors the transport and the refresh capability reject with.
TransportError == Error("network request failed")
RefreshError == Error("refreshTokenFunction failed")

\* Call c has settled with the failure of the transport or of the refresh
\* capability: the error is the caller's, request() has decoded nothing, and
\* the exchanges are those made before the failure.
FailurePropagated(c) ==
    /\ (calls[c].outcome # None
        /\ calls[c].outcome.kind = "throw"
        /\ calls[c].outcome.error = TransportError) =>
          /\ calls[c].pc = "done"
          /\ calls[c].requestResponse = None
          /\ Exchanges(c) \in {1, 2}
          /\ Exchanges(c) = 1 => calls[c].response = None /\ calls[c].refreshCalls = 0
    /\ (calls[c].outcome # None
        /\ calls[c].outcome.kind = "throw"
        /\ calls[c].outcome.error = RefreshError) =>
          /\ calls[c].pc = "done"
          /\ calls[c].requestResponse = None
          /\ Exchanges(c) = 1
          /\ calls[c].refreshCalls = 1
          /\ calls[c].tokenRefreshed = None

\* A failure of the transport or of the refresh capability settles call c
\* with that failure, and a settled call sends nothing more.
FailureSettles(c) ==
    /\ TransportFails(c) =>
         /\ calls'[c].pc = "done"
         /\ calls'[c].outcome = Throw(TransportError)
         /\ calls'[c].sent = calls[c].sent
    /\ RefreshRejects(c) =>
         /\ calls'[c].pc = "done"
         /\ calls'[c].outcome = Throw(RefreshError)
         /\ calls'[c].sent = calls[c].sent
    /\ calls[c].pc = "done" =>
         \/ calls'[c] = calls[c]
         \/ calls'[c] = IdleCall

\* C18: when the transport fails on the first exchange or on the retry, or
\* the refresh capability rejects, the caller gets that failure; no
\* exchange follows it and no result is returned.
C18_FailuresPropagate ==
    /\ [](\A c \in Running : FailurePropagated(c))
    /\ [][\A c \in Running : FailureSettles(c)]_vars

\* The transport has failed on the retry of a call.
C18_TransportFailedOnRetry ==
    \E c \in Running :
        /\ calls[c].pc = "done"
        /\ calls[c].outcome = Throw(TransportError)
        /\ Exchanges(c) = 2
        /\ calls[c].tokenRefreshed = Assigned(TRUE)

\* The headers prepareHeaders sets (lines 123-142).
PreparedHeaderNames ==
    {"x-skygear-api-key", "authorization", "user-agent", "x-skygear-extra-info"}

\* Requests a and b differ at most in their prepared headers.
SameDescriptor(a, b) ==
    /\ a.method = b.method
    /\ a.url = b.url
    /\ a.body = b.body
    /\ \A k \in (DOMAIN a.headers \cup DOMAIN b.headers) \ PreparedHeaderNames :
         /\ k \in DOMAIN a.headers
         /\ k \in DOMAIN b.headers
         /\ a.headers[k] = b.headers[k]

\* C19: the retry of a call carries the method, the URL and the body of its
\* first exchange, the authn_session_token held when the call was made
\* included, whatever the client's tokens have become; the two exchanges
\* differ at most in the headers prepareHeaders sets.
C19_RetryKeepsDescriptor ==
    \A c \in Running :
        Exchanges(c) = 2 =>
            /\ SameDescriptor(calls[c].sent[1], calls[c].sent[2])
            /\ SameDescriptor(calls[c].request, calls[c].sent[2])
            /\ calls[c].op \in MFAStepOperations =>
                 CarriesSessionToken(calls[c].sent[2].body, calls[c].sessionAtCall)

\* A call made with a session token was retried after the session was
\* replaced, and its two exchanges differ in their headers.
C19_RetriedWithOtherHeaders ==
    \E c \in Running :
        /\ Exchanges(c) = 2
        /\ calls[c].op \in MFAStepOperations
        /\ calls[c].sessionAtCall # Null
        /\ authenticationSession # calls[c].sessionAtCall
        /\ calls[c].sent[1].headers # calls[c].sent[2].headers

\* A step that changes the access token is the host's own write, which
\* touches no call, or the resolution of the refresh capability some call
\* awaits (line 200).
AccessTokenWrittenFromOutside ==
    accessToken' # accessToken =>
        \/ calls' = calls
        \/ \E c \in Running :
             /\ calls[c].pc = "refreshing"
             /\ calls'[c].pc = "refreshed"
             /\ \A d \in Running \ {c} : calls'[d] = calls[d]

\* A step in which call c reads the access token is a preparation of its
\* headers (lines 189 and 204): the headers are those of the client as it
\* is at that step.
AccessTokenReadAtPreparation(c) ==
    calls'[c].tokenRead # calls[c].tokenRead =>
        \/ calls'[c] = IdleCall
        \/ /\ \/ calls[c].pc = "idle" /\ calls'[c].pc = "prepare1"
              \/ calls[c].pc = "refreshed" /\ calls'[c].pc = "prepare2"
           /\ calls'[c].tokenRead = Append(calls[c].tokenRead, accessToken)
           /\ calls'[c].headers = prepareHeaders
           /\ accessToken' = accessToken

\* C20: no step of fetch, of request or of an auth-flow operation writes
\* the access token: it changes only when the refresh capability resolves
\* or the host writes it, and a call reads it only when it prepares its
\* headers.
C20_AccessTokenNotWrittenByClient ==
    [][/\ AccessTokenWrittenFromOutside
       /\ \A c \in Running : AccessTokenReadAtPreparation(c)]_vars

\* refresh() has returned the server's answer to its caller and the client
\* holds no access token: the one read when the headers were prepared.
C20_RefreshAnsweredTokenNotStored ==
    \E c \in Running :
        /\ calls[c].op = "refresh"
        /\ calls[c].pc = "done"
        /\ calls[c].outcome.kind = "return"
        /\ calls[c].tokenRead = <<Null>>
        /\ accessToken = Null


-----------------------------------------------------------------------------
(***************************************************************************)
(* The pipeline when everything a call awaits settles: getExtraSessionInfo, *)
(* fetchFunction and refreshTokenFunction resolve or reject, and the        *)
(* continuation of each await of fetch (lines 189, 194, 200, 204, 209) is   *)
(* run once the awaited promise has settled.                                *)
(***************************************************************************)
AwaitSettles ==
    \/ Send
    \/ SupplierFails
    \/ FlowReceive
    \/ RefreshDone
    \/ RefreshFails
    \/ Resume
    \/ SendRetry
    \/ FlowReceiveRetry
    \/ FetchFails
    \/ Decode

\* The host installs or removes the capabilities, at any time; whether a
\* call completes does not depend on the API key or on the user agent.
ConfigureCapabilities ==
    /\ fetchFunction' \in BOOLEAN
    /\ requestClass' \in BOOLEAN
    /\ refreshTokenFunction' \in BOOLEAN
    /\ getExtraSessionInfo' \in BOOLEAN
    /\ UNCHANGED <<apiKey, endpoint, authEndpoint, assetEndpoint, accessToken, authenticationSession,
                   userAgent, calls>>

NextLive ==
    \/ ConfigureCapabilities
    \/ CallOperation
    \/ CallFetch
    \/ Send
    \/ SupplierFails
    \/ FlowReceive
    \/ RefreshDone
    \/ RefreshFails
    \/ Resume
    \/ SendRetry
    \/ FlowReceiveRetry
    \/ FetchFails
    \/ Decode
    \/ Done

SpecLive == Init /\ [][NextLive]_vars /\ WF_vars(AwaitSettles)

\* Call c has completed: with one outcome, a result or an error, after at
\* most two exchanges and at most one invocation of the refresh capability.
CompletedOnce(c) ==
    /\ calls[c].pc = "done"
    /\ calls[c].outcome # None
    /\ calls[c].outcome.kind \in {"return", "throw"}
    /\ calls[c].outcome.kind = "return" => "error" \notin DOMAIN calls[c].outcome
    /\ calls[c].outcome.kind = "throw" => "value" \notin DOMAIN calls[c].outcome
    /\ Exchanges(c) <= 2
    /\ calls[c].refreshCalls <= 1

\* C21: when the transport, the refresh capability and the supplier of the
\* extra session info each answer, every call that was made completes,
\* with exactly one outcome, after at most two exchanges and one refresh;
\* until then it has no outcome.
C21_EveryCallCompletes ==
    /\ [](\A c \in Running :
            /\ calls[c].pc = "done" => CompletedOnce(c)
            /\ calls[c].pc # "done" => calls[c].outcome = None)
    /\ \A c \in Calls : (calls[c].pc # "idle") ~> CompletedOnce(c)

\* A call has completed with a result after a refresh and a retry.
C21_CompletedAfterRetry ==
    \E c \in Running :
        /\ CompletedOnce(c)
        /\ calls[c].outcome.kind = "return"
        /\ Exchanges(c) = 2
        /\ calls[c].refreshCalls = 1


\* C22 as stated: refresh() runs with autoRefreshToken = false, performs
\* exactly one exchange and never invokes the refresh capability.
C22_RefreshExactlyOneExchange ==
    \A c \in Running :
        (calls[c].op = "refresh" /\ calls[c].pc = "done") =>
            /\ calls[c].options = [autoRefreshToken |-> FALSE]
            /\ calls[c].refreshCalls = 0
            /\ Exchanges(c) = 1

\* C22: refresh() runs with autoRefreshToken = false: it never invokes the
\* refresh capability and never retries, whatever its response says; it
\* makes one exchange at most, exactly one once it has a response, and none
\* only when it failed before its first exchange.
C22_RefreshNeverRefreshesItself ==
    \A c \in Running :
        calls[c].op = "refresh" =>
            /\ calls[c].options = [autoRefreshToken |-> FALSE]
            /\ ~calls[c].autoRefreshToken
            /\ calls[c].refreshCalls = 0
            /\ calls[c].tokenRefreshed = None
            /\ calls[c].pc \notin {"refreshing", "refreshed", "prepare2", "fetch2"}
            /\ Exchanges(c) <= 1
            /\ calls[c].response # None =>
                 /\ Exchanges(c) = 1
                 /\ calls[c].pc \in {"json", "done"}
            /\ calls[c].pc = "done" =>
                 \/ Exchanges(c) = 1
                 \/ FailedBeforeFirstExchange(c)

\* refresh() has completed on a response marked stale while the client has
\* a refresh capability, which was not invoked.
C22_StaleRefreshNotRetried ==
    \E c \in Running :
        /\ calls[c].op = "refresh"
        /\ calls[c].pc = "done"
        /\ refreshTokenFunction
        /\ calls[c].response # None
        /\ MarkedStale(calls[c].response)
        /\ calls[c].refreshCalls = 0
        /\ Exchanges(c) = 1


-----------------------------------------------------------------------------
(***************************************************************************)
(* setEndpoint (lines 107-121).  The endpoints are sequences of characters, *)
(* as in _gearEndpoint; an optional argument is None when it is omitted.    *)
(***************************************************************************)
RECURSIVE _removeTrailingSlash(_)
\* s.replace(/\/+$/g, ""): s without the slashes it ends with.
_removeTrailingSlash(s) ==
    IF Len(s) > 0 /\ s[Len(s)] = "/"
    THEN _removeTrailingSlash(SubSeq(s, 1, Len(s) - 1))
    ELSE s

AccountsGear == <<"a", "c", "c", "o", "u", "n", "t", "s">>
AssetsGear == <<"a", "s", "s", "e", "t", "s">>

\* authEndpoint ? ... : ...  -- an omitted argument and "" are falsy.
TruthyArgument(a) == a # None /\ a.value # <<>>

\* The argument when it is truthy, otherwise the gear's derivation of the
\* endpoint, which may throw.
ArgumentOrGear(a, e, gearSubdomain) ==
    IF TruthyArgument(a) THEN Return(a.value) ELSE _gearEndpoint(e, gearSubdomain)

\* The app endpoints and the explicit gear endpoints setEndpoint is called
\* with.
SetEndpointHeads == {<<>>, HttpPrefix, HttpsPrefix, SlashSlashPrefix}
SetEndpointChars == {"a", "/", "<U+2029>"}
SetEndpointAppEndpoints ==
    {head \o rest : head \in SetEndpointHeads,
                    rest \in StringsOver(SetEndpointChars, MaxRest)}
ExplicitEndpoints == {HttpsPrefix \o <<"x">>}
OptionalEndpoints ==
    {None, Assigned(<<>>)} \cup {Assigned(e) : e \in ExplicitEndpoints}

\* No call of setEndpoint is in progress.
IdleSetEndpoint ==
    [pc |-> "idle", op |-> "setEndpoint", appEndpoint |-> <<>>,
     authEndpoint |-> None, assetEndpoint |-> None, outcome |-> None]

InitEndpoints ==
    /\ apiKey = EmptyString
    /\ endpoint = <<>>
    /\ authEndpoint = <<>>
    /\ assetEndpoint = <<>>
    /\ accessToken = Null
    /\ authenticationSession = Null
    /\ fetchFunction = FALSE
    /\ requestClass = FALSE
    /\ refreshTokenFunction = FALSE
    /\ userAgent = Undefined
    /\ getExtraSessionInfo = FALSE
    /\ calls = [c \in Calls |-> IdleSetEndpoint]

\* setEndpoint(appEndpoint, authEndpointArg, assetEndpointArg): the three
\* assignments in their order; the first _gearEndpoint that throws ends the
\* function, and what was assigned before it stays assigned.
setEndpoint(c, appEndpoint, authEndpointArg, assetEndpointArg) ==
    LET e == _removeTrailingSlash(appEndpoint)
        auth == ArgumentOrGear(authEndpointArg, e, AccountsGear)
        asset == ArgumentOrGear(assetEndpointArg, e, AssetsGear)
        call == [calls[c] EXCEPT !.appEndpoint = appEndpoint,
                                 !.authEndpoint = authEndpointArg,
                                 !.assetEndpoint = assetEndpointArg,
                                 !.pc = "done"]
    IN  /\ calls[c].pc = "idle"
        /\ endpoint' = e
        /\ IF auth.kind = "throw"
           THEN /\ UNCHANGED <<authEndpoint, assetEndpoint>>
                /\ Becomes(c, [call EXCEPT !.outcome = auth])
           ELSE /\ authEndpoint' = auth.value
                /\ IF asset.kind = "throw"
                   THEN /\ UNCHANGED assetEndpoint
                        /\ Becomes(c, [call EXCEPT !.outcome = asset])
                   ELSE /\ assetEndpoint' = asset.value
                        /\ Becomes(c, [call EXCEPT !.outcome = Return(Undefined)])
        /\ UNCHANGED <<apiKey, accessToken, authenticationSession, fetchFunction,
                       requestClass, refreshTokenFunction, userAgent,
                       getExtraSessionInfo>>

\* The host has the outcome of setEndpoint and may call it again.
SetEndpointSettled(c) ==
    /\ calls[c].pc = "done"
    /\ Becomes(c, IdleSetEndpoint)
    /\ UNCHANGED clientVars

CallSetEndpoint ==
    \E c \in Running : \E e \in SetEndpointAppEndpoints :
        \E a \in OptionalEndpoints : \E s \in OptionalEndpoints :
            setEndpoint(c, e, a, s)
SetEndpointDone == \E c \in Running : SetEndpointSettled(c)

NextEndpoints ==
    \/ CallSetEndpoint
    \/ SetEndpointDone

SpecEndpoints == InitEndpoints /\ [][NextEndpoints]_vars

\* The gear endpoint g is one that was supplied, or the derivation of the
\* current endpoint for the gear.
SuppliedOrDerived(g, gearSubdomain) ==
    \/ g \in ExplicitEndpoints
    \/ _gearEndpoint(endpoint, gearSubdomain) = Return(g)

\* The client's endpoints as constructed, or as a setEndpoint that set all
\* three leaves them.
ConsistentEndpoints ==
    \/ endpoint = <<>> /\ authEndpoint = <<>> /\ assetEndpoint = <<>>
    \/ /\ SuppliedOrDerived(authEndpoint, AccountsGear)
       /\ SuppliedOrDerived(assetEndpoint, AssetsGear)

\* This step is a call of setEndpoint by c that fails.
SetEndpointFailed(c) ==
    /\ calls[c].pc = "idle"
    /\ calls'[c].pc = "done"
    /\ calls'[c].outcome = Throw(Error("invalid app endpoint"))

\* C23: a setEndpoint that fails with 'invalid app endpoint' leaves
\* endpoint, authEndpoint and assetEndpoint as they were, so that after any
\* calls authEndpoint and assetEndpoint are each a supplied value or the
\* 'accounts' / 'assets' derivation of the current endpoint.
C23_SetEndpointAllOrNothing ==
    /\ []ConsistentEndpoints
    /\ [][\A c \in Running :
            SetEndpointFailed(c) =>
                UNCHANGED <<endpoint, authEndpoint, assetEndpoint>>]_vars

\* What setEndpoint does keep: a call that succeeds leaves the three
\* endpoints consistent, and a call that fails has still stored its app
\* endpoint without its trailing slashes.
SetEndpointStoresEndpointFirst ==
    \A c \in Running :
        calls[c].pc = "done" =>
            /\ endpoint = _removeTrailingSlash(calls[c].appEndpoint)
            /\ calls[c].outcome.kind = "return" => ConsistentEndpoints
            /\ calls[c].outcome.kind = "throw" =>
                 calls[c].outcome = Throw(Error("invalid app endpoint"))

=============================================================================
